---- MODULE Spec2Model ----
(***************************************************************************)
(* Model of the incremental-processing state tracker of ulf-dash           *)
(* (src/bookkeeping.py, class BookKeeper, and its consumer                 *)
(* src/processdata.py).                                                    *)
(*                                                                         *)
(* Python lists are modelled as TLA+ sequences.  The indices the code      *)
(* reports (overlap partners) are kept 0-based, as the code produces them; *)
(* element k of a Python list is element k + 1 of the sequence.            *)
(***************************************************************************)
EXTENDS Integers, Sequences, FiniteSets, TLC

(***************************************************************************)
(* Bounds of the model.                                                    *)
(***************************************************************************)
\* Largest number of files of one channel in the duplicate-resolution runs.
MaxSegs == 3
\* Instants of the duplicate-resolution runs are 0 .. MaxInst.
MaxInst == 3
\* Source files of the planning runs lie within the days 0 .. MaxDay.
MaxDay == 2
\* Largest number of steps (runs, clock ticks, changes of the source
\* directories) in one behaviour of the journal runs.
MaxSteps == 6
\* Largest number of steps (runs, changes of artifact files) in one behaviour
\* of the staleness runs.
MaxDiskSteps == 4
\* Largest number of runs, and the last clock tick, of the parameter runs.
MaxRuns == 2
MaxClock == 2
\* Files of one channel in the runs that resolve long lists.
MaxLongSegs == 6
\* Summary files the dashboard finds.
MaxFold == 3

(***************************************************************************)
(* State.                                                                  *)
(***************************************************************************)
VARIABLES
    lv,      \* one channel's file list `_lv` : entries [path, start, end(, overlaps(, keep))]
    olinx,   \* last value returned by find_overlaping_timesegments
    dlog,    \* BookKeeper._log during duplicate resolution
    dpc,     \* position in the duplicate-resolution pipeline
    srcfs,   \* source files on disk: path -> content
    subjdirs,\* subject directories of the data directory
    disk,    \* derived artifact files on disk: path -> content
    journal, \* the bookkeeping.json file
    now,     \* the wall clock, in ticks
    bk,      \* the BookKeeper of the latest run, with the trace of its construction
    nruns,   \* number of runs started
    steps,   \* number of steps taken
    procs,   \* the invocations running side by side: position and local data of each
    gens,    \* the generation calls of the latest processalldata, in order
    aprmslist,  \* the dashboard's list of analysis parameter dicts
    aprmsadded, \* the dicts folded into aprmslist so far, in order
    datadir, \* the data directory beside its source files: entries, sensor, binary files
    presult, \* how the latest processalldata ended
    csvdisk  \* the .csv copies of the artifact files: artifact path -> the run that wrote it

\* The dashboard's list and its trace.
foldvars == <<aprmslist, aprmsadded>>
\* What a run of the tracker or of processalldata leaves alone besides the
\* invocations and the generation calls.
dupvars == <<lv, olinx, dlog, dpc, aprmslist, aprmsadded, datadir, presult, csvdisk>>
\* What a step of the duplicate resolution of one channel leaves alone.
runvars == <<srcfs, subjdirs, disk, journal, now, bk, nruns, steps, procs, gens,
             aprmslist, aprmsadded, datadir, presult, csvdisk>>
\* What a single run of the tracker leaves alone.
idlevars == <<lv, olinx, dlog, dpc, procs, gens, aprmslist, aprmsadded, datadir,
              presult, csvdisk>>
vars == <<lv, olinx, dlog, dpc, srcfs, subjdirs, disk, journal, now, bk, nruns, steps,
          procs, gens, aprmslist, aprmsadded, datadir, presult, csvdisk>>

(***************************************************************************)
(* Values.                                                                 *)
(***************************************************************************)
\* Outcome of a call: a raised exception, or a normal return.
NoErr == "none"

\* A Python dict (a JSON object) is a function on its keys; {} is the empty
\* function.
EmptyDict == <<>>

\* dict[key] = val
PutKey(dict, key, val) ==
    [k \in DOMAIN dict \cup {key} |-> IF k = key THEN val ELSE dict[k]]

\* A source file path under a subject directory, for channel (location) loc.
\* x in s, for a Python list s.
InList(x, s) == \E m \in DOMAIN s : s[m] = x

SrcPath(subj, loc, n) == [subj |-> subj, loc |-> loc, n |-> n]

(***************************************************************************)
(* find_overlaping_timesegments  (src/bookkeeping.py 371-397)              *)
(***************************************************************************)
\* line 395: the j-th segment has its start or its end inside the i-th one.
OverlapTest(ti, tj) ==
    \/ (ti[1] <= tj[1] /\ tj[1] <= ti[2])
    \/ (ti[1] <= tj[2] /\ tj[2] <= ti[2])

\* line 393: enumerate(tsegs[i+1:]) visits the indices i+1 .. n-1 in order.
LaterIndices(i, n) == [k \in 1..(n - 1 - i) |-> i + k]

\* The detector without the assertion of lines 388-389.
find_overlaping_timesegments_NoOrderAssert(tsegs) ==
    IF \E k \in DOMAIN tsegs : Len(tsegs[k]) # 2
    THEN [err |-> "AssertionError", val |-> <<>>]
    ELSE [err |-> NoErr,
          val |-> [i1 \in 1..Len(tsegs) |->
                     SelectSeq(LaterIndices(i1 - 1, Len(tsegs)),
                               LAMBDA j : OverlapTest(tsegs[i1], tsegs[j + 1]))]]

find_overlaping_timesegments(tsegs) ==
    IF \E k \in DOMAIN tsegs : Len(tsegs[k]) # 2
    THEN [err |-> "AssertionError", val |-> <<>>]
    ELSE IF \E k \in DOMAIN tsegs : tsegs[k][1] > tsegs[k][2]
    THEN [err |-> "AssertionError", val |-> <<>>]
    ELSE [err |-> NoErr,
          val |-> [i1 \in 1..Len(tsegs) |->
                     SelectSeq(LaterIndices(i1 - 1, Len(tsegs)),
                               LAMBDA j : OverlapTest(tsegs[i1], tsegs[j + 1]))]]

(***************************************************************************)
(* BookKeeper.logerror / logwarning  (src/bookkeeping.py 76-84)            *)
(***************************************************************************)
\* What a message shows of a value: repr() of a path, a timestamp, a list or
\* a bool.  The tag keeps the four kinds of text apart.
Repr(kind, v) == [kind |-> kind, val |-> v]

\* repr(el[k]) for an entry el of a channel list (k is 0-based).
ReprField(el, k) ==
    CASE k = 0 -> Repr("path", el[1])
      [] k = 1 -> Repr("time", el[2])
      [] k = 2 -> Repr("time", el[3])
      [] k = 3 -> Repr("list", el[4])
      [] OTHER -> Repr("bool", el[5])

logerror(log, names) ==
    Append(log, [level |-> "ERROR", type |-> "DUPLICATE_TIMESTAMPS", names |-> names])

logwarning(log, what) ==
    Append(log, [level |-> "WARNING", type |-> "IGNORING_FILE", names |-> <<what>>])

(***************************************************************************)
(* BookKeeper._update_duplicate_timestamp_files, one channel               *)
(* (src/bookkeeping.py 288-306)                                            *)
(***************************************************************************)
\* lines 299-302: the file and its later overlap partners, by path.
OverlapNames(chan, i, ol) ==
    <<Repr("path", chan[i + 1][1])>> \o [k \in DOMAIN ol |-> Repr("path", chan[ol[k] + 1][1])]

RECURSIVE LogOverlaps(_, _, _, _)
LogOverlaps(chan, ols, log, i) ==
    IF i >= Len(chan) THEN log
    ELSE IF Len(ols[i + 1]) = 0 THEN LogOverlaps(chan, ols, log, i + 1)
    ELSE LogOverlaps(chan, ols, logerror(log, OverlapNames(chan, i, ols[i + 1])), i + 1)

update_duplicate_channel(chan, log) ==
    LET r == find_overlaping_timesegments(
                 [k \in DOMAIN chan |-> SubSeq(chan[k], 2, Len(chan[k]))])
    IN IF r.err # NoErr
       THEN [err |-> r.err, lv |-> chan, log |-> log, olinx |-> r.val]
       ELSE [err |-> NoErr,
             lv |-> [k \in DOMAIN chan |-> Append(chan[k], r.val[k])],
             log |-> LogOverlaps(chan, r.val, log, 0),
             olinx |-> r.val]

(***************************************************************************)
(* BookKeeper._filter_out_duplicate_timestamp_files, one channel           *)
(* (src/bookkeeping.py 317-337)                                            *)
(***************************************************************************)
\* lines 330-337: the partners of the kept file i, from the k-th on.  The
\* flag of partner j is cleared first; the warning then shows _el[j], field j
\* of the KEPT file's own entry, which has five fields.
RECURSIVE DiscardPartners(_, _, _, _)
DiscardPartners(chan, log, i, k) ==
    LET ol == chan[i + 1][4] IN
    IF k > Len(ol) THEN [err |-> NoErr, lv |-> chan, log |-> log]
    ELSE LET j == ol[k]
             chan1 == [chan EXCEPT ![j + 1][5] = FALSE]
         IN IF j >= Len(chan1[i + 1])
            THEN [err |-> "IndexError", lv |-> chan1, log |-> log]
            ELSE DiscardPartners(chan1,
                                 logwarning(log, ReprField(chan1[i + 1], j)),
                                 i, k + 1)

\* FilterFrom without the skip of lines 325-327: a file already marked still
\* discards its own partners.
RECURSIVE FilterFrom_NoSkip(_, _, _)
FilterFrom_NoSkip(chan, log, i) ==
    IF i >= Len(chan) THEN [err |-> NoErr, lv |-> chan, log |-> log]
    ELSE LET r == DiscardPartners(chan, log, i, 1)
         IN IF r.err # NoErr THEN r ELSE FilterFrom_NoSkip(r.lv, r.log, i + 1)

\* lines 324-337: the files in list order; a file already marked is skipped.
RECURSIVE FilterFrom(_, _, _)
FilterFrom(chan, log, i) ==
    IF i >= Len(chan) THEN [err |-> NoErr, lv |-> chan, log |-> log]
    ELSE IF chan[i + 1][5] = FALSE THEN FilterFrom(chan, log, i + 1)
    ELSE LET r == DiscardPartners(chan, log, i, 1)
         IN IF r.err # NoErr THEN r ELSE FilterFrom(r.lv, r.log, i + 1)

\* lines 319-320 then 324-337.
filter_out_duplicate_channel(chan, log) ==
    FilterFrom([k \in DOMAIN chan |-> Append(chan[k], TRUE)], log, 0)

(***************************************************************************)
(* The data directory.                                                     *)
(***************************************************************************)
\* Subject directories, in the order glob lists them (bookkeeping.py 92-96).
SubjOrder == <<"s1", "s2">>

\* dataparams.locid: the channels, in configured order.
Locs == <<"L", "R">>

LocSet == {Locs[k] : k \in DOMAIN Locs}

\* Every source path the model knows, in the order glob lists them.
SrcOrder ==
    <<SrcPath("s1", "L", 0), SrcPath("s1", "L", 1), SrcPath("s1", "R", 0),
      SrcPath("s2", "L", 0)>>

SrcPaths == {SrcOrder[k] : k \in DOMAIN SrcOrder}

\* Content of a source file, as far as the reader shows it: whether the
\* reader accepts the file, its first and its last sample timestamp.
NoFile == [present |-> FALSE, ok |-> FALSE, first |-> 0, last |-> 0]

SensorFile(first, last) == [present |-> TRUE, ok |-> TRUE, first |-> first, last |-> last]

BadFile == [present |-> TRUE, ok |-> FALSE, first |-> 0, last |-> 0]

(***************************************************************************)
(* Time.  An instant is a number of ticks; a calendar day has TicksPerDay  *)
(* ticks, so .date() of an instant is its day number.                      *)
(***************************************************************************)
TicksPerDay == 2

\* to_datetime(t).date()  (bookkeeping.py 217, 221, 245)
DateOf(t) == t \div TicksPerDay

SetMin(S) == CHOOSE x \in S : \A y \in S : x <= y

SetMax(S) == CHOOSE x \in S : \A y \in S : y <= x

(***************************************************************************)
(* Analysis parameters.  A parameter value v stands for the number         *)
(* v / UnitsPerOne, which a binary float holds exactly.                    *)
(***************************************************************************)
UnitsPerOne == 256

\* format(x, "0.2f"): x in hundredths, rounded to nearest, ties to even.
Fmt2f(v) ==
    LET n == 100 * v
        q == n \div UnitsPerOne
        r == n % UnitsPerOne
    IN IF 2 * r > UnitsPerOne \/ (2 * r = UnitsPerOne /\ q % 2 = 1) THEN q + 1 ELSE q

\* BookKeeper.get_analysis_param_file_strings (bookkeeping.py 34-38): the
\* three fragments "srX", "avgX-Y" and ["summNNNN", ...] by their digits.
get_analysis_param_file_strings(aparams) ==
    [srstr |-> Fmt2f(aparams.ulfuncinstsamprate),
     avgstr |-> <<Fmt2f(aparams.avgwindur), Fmt2f(aparams.avgwinshift)>>,
     summstr |-> [k \in DOMAIN aparams.summarywin |-> aparams.summarywin[k]]]

(***************************************************************************)
(* Artifact paths  (bookkeeping.py 249-282).  A path is the tuple of the   *)
(* pieces joined into its name; a piece a kind does not use is blank.      *)
(***************************************************************************)
RawPath(subj, d) ==
    [kind |-> "raw", subj |-> subj, day |-> d, sr |-> -1, avg |-> <<>>,
     summ |-> -1, key |-> ""]

\* UlfuncinstPath without the rate fragment of line 260.
UlfuncinstPath_NoRate(subj, d, srstr) ==
    [kind |-> "ulfuncinst", subj |-> subj, day |-> d, sr |-> -1, avg |-> <<>>,
     summ |-> -1, key |-> ""]

UlfuncinstPath(subj, d, srstr) ==
    [kind |-> "ulfuncinst", subj |-> subj, day |-> d, sr |-> srstr, avg |-> <<>>,
     summ |-> -1, key |-> ""]

\* UlfuncavrgPath without the window fragment of line 268.
UlfuncavrgPath_NoWindow(subj, d, srstr, avgstr) ==
    [kind |-> "ulfuncavrg", subj |-> subj, day |-> d, sr |-> srstr, avg |-> <<>>,
     summ |-> -1, key |-> ""]

UlfuncavrgPath(subj, d, srstr, avgstr) ==
    [kind |-> "ulfuncavrg", subj |-> subj, day |-> d, sr |-> srstr, avg |-> avgstr,
     summ |-> -1, key |-> ""]

SummaryPath(subj, srstr, avgstr, ss, key) ==
    [kind |-> "summary", subj |-> subj, day |-> -1, sr |-> srstr, avg |-> avgstr,
     summ |-> ss, key |-> key]

SummaryKeys == {"hq", "rq", "li"}

(***************************************************************************)
(* BookKeeper._get_expected_files_on_disk  (bookkeeping.py 193-283)        *)
(***************************************************************************)
\* lines 214-215: the [start, end] of every entry whose keep flag is set.
KeptLimits(locfiles) ==
    UNION {{<<locfiles[l][k][2], locfiles[l][k][3]>> :
               k \in {m \in DOMAIN locfiles[l] : locfiles[l][m][5]}} : l \in LocSet}

\* DaySources without the keep test of lines 242-243.
DaySources_NoKeepTest(chan, d) ==
    LET sel == SelectSeq(chan, LAMBDA el : DateOf(el[2]) <= d /\ d <= DateOf(el[3]))
    IN [k \in DOMAIN sel |-> sel[k][1]]

\* DaySources without the start-date test of line 245.
DaySources_EndOnly(chan, d) ==
    LET sel == SelectSeq(chan, LAMBDA el : el[5] /\ d <= DateOf(el[3]))
    IN [k \in DOMAIN sel |-> sel[k][1]]

\* lines 240-246: the kept files of a channel that hold data of day d.
DaySources(chan, d) ==
    LET sel == SelectSeq(chan, LAMBDA el :
                   el[5] /\ DateOf(el[2]) <= d /\ d <= DateOf(el[3]))
    IN [k \in DOMAIN sel |-> sel[k][1]]

\* lines 225-227: np.arange(start, stop + 1 day, 1 day), stop included.
AllDates_StopExcluded(strtdt, stopdt) == strtdt..(stopdt - 1)

AllDates(strtdt, stopdt) == strtdt..stopdt

get_expected_files_on_disk(subj, locfiles, aparams) ==
    LET strs == get_analysis_param_file_strings(aparams)
        tlims == KeptLimits(locfiles)
    IN IF tlims = {}
       THEN [err |-> "IndexError", days |-> <<>>, summary |-> <<>>]
       ELSE LET strtdt == DateOf(SetMin({t[1] : t \in tlims}))
                stopdt == DateOf(SetMax({t[2] : t \in tlims}))
                alldates == AllDates(strtdt, stopdt)
            IN [err |-> NoErr,
                days |-> [d \in alldates |->
                    [src |-> [l \in LocSet |-> DaySources(locfiles[l], d)],
                     raw |-> RawPath(subj, d),
                     ulfuncinst |-> UlfuncinstPath(subj, d, strs.srstr),
                     ulfuncavrg |-> UlfuncavrgPath(subj, d, strs.srstr, strs.avgstr)]],
                summary |-> [key \in SummaryKeys |->
                    [k \in DOMAIN strs.summstr |->
                        SummaryPath(subj, strs.srstr, strs.avgstr, strs.summstr[k], key)]]]

(***************************************************************************)
(* BookKeeper._get_files_to_be_processed  (bookkeeping.py 163-191)         *)
(***************************************************************************)
\* NeedsBuild taking an empty file for a missing one.
NeedsBuild_EmptyIsMissing(path, files) ==
    <<path, path \notin DOMAIN files \/ files[path] = "empty">>

\* lines 181, 188: [path, not os.path.exists(path)]
NeedsBuild(path, files) == <<path, path \notin DOMAIN files>>

\* get_files_to_be_processed flagging the ulfuncinst and ulfuncavrg files
\* of a day as well when the file they are derived from is missing.
get_files_to_be_processed_Cascading(exptdfiles, files) ==
    [days |-> [d \in DOMAIN exptdfiles.days |->
                 [raw |-> NeedsBuild(exptdfiles.days[d].raw, files),
                  ulfuncinst |->
                      <<exptdfiles.days[d].ulfuncinst,
                        \/ exptdfiles.days[d].ulfuncinst \notin DOMAIN files
                        \/ exptdfiles.days[d].raw \notin DOMAIN files>>,
                  ulfuncavrg |->
                      <<exptdfiles.days[d].ulfuncavrg,
                        \/ exptdfiles.days[d].ulfuncavrg \notin DOMAIN files
                        \/ exptdfiles.days[d].ulfuncinst \notin DOMAIN files
                        \/ exptdfiles.days[d].raw \notin DOMAIN files>>,
                  src |-> exptdfiles.days[d].src]],
     summary |-> [key \in SummaryKeys |->
                    [k \in DOMAIN exptdfiles.summary[key] |->
                        NeedsBuild(exptdfiles.summary[key][k], files)]]]

get_files_to_be_processed(exptdfiles, files) ==
    [days |-> [d \in DOMAIN exptdfiles.days |->
                 [raw |-> NeedsBuild(exptdfiles.days[d].raw, files),
                  ulfuncinst |-> NeedsBuild(exptdfiles.days[d].ulfuncinst, files),
                  ulfuncavrg |-> NeedsBuild(exptdfiles.days[d].ulfuncavrg, files),
                  src |-> exptdfiles.days[d].src]],
     summary |-> [key \in SummaryKeys |->
                    [k \in DOMAIN exptdfiles.summary[key] |->
                        NeedsBuild(exptdfiles.summary[key][k], files)]]]

(***************************************************************************)
(* BookKeeper._get_loc_file_details  (bookkeeping.py 340-368)              *)
(***************************************************************************)
\* line 346: the files of a subject directory that match a channel.
GlobFiles(subj, loc, fs) ==
    SelectSeq(SrcOrder, LAMBDA p : p.subj = subj /\ p.loc = loc /\ fs[p].present)

\* ScanFiles without the cache test of line 352: every file is read.
RECURSIVE ScanFiles_AlwaysRead(_, _, _, _, _, _)
ScanFiles_AlwaysRead(files, k, fs, ft, entries, calls) ==
    IF k > Len(files)
    THEN [err |-> NoErr, ft |-> ft, entries |-> entries, calls |-> calls]
    ELSE IF ~ fs[files[k]].ok
    THEN [err |-> "ReadError", ft |-> ft, entries |-> entries,
          calls |-> Append(calls, files[k])]
    ELSE ScanFiles_AlwaysRead(files, k + 1, fs,
             PutKey(ft, files[k], <<fs[files[k]].first, fs[files[k]].last>>),
             Append(entries, <<files[k], fs[files[k]].first, fs[files[k]].last>>),
             Append(calls, files[k]))

\* lines 348-367 for the files from the k-th on.  ft is
\* self._bkdata['filetimes']; calls lists the paths handed to the reader.
RECURSIVE ScanFiles(_, _, _, _, _, _)
ScanFiles(files, k, fs, ft, entries, calls) ==
    IF k > Len(files)
    THEN [err |-> NoErr, ft |-> ft, entries |-> entries, calls |-> calls]
    ELSE LET lf == files[k] IN
         IF lf \in DOMAIN ft
         THEN ScanFiles(files, k + 1, fs, ft,
                        Append(entries, <<lf, ft[lf][1], ft[lf][2]>>), calls)
         ELSE IF ~ fs[lf].ok
         THEN [err |-> "ReadError", ft |-> ft, entries |-> entries,
               calls |-> Append(calls, lf)]
         ELSE LET ft1 == [q \in DOMAIN ft \cup {lf} |->
                             IF q = lf THEN <<fs[lf].first, fs[lf].last>> ELSE ft[q]]
              IN ScanFiles(files, k + 1, fs, ft1,
                           Append(entries, <<lf, ft1[lf][1], ft1[lf][2]>>),
                           Append(calls, lf))

\* lines 344-368, channel after channel.
RECURSIVE ScanLocs(_, _, _, _, _, _)
ScanLocs(subj, n, fs, ft, locfiles, calls) ==
    IF n > Len(Locs)
    THEN [err |-> NoErr, ft |-> ft, locfiles |-> locfiles, calls |-> calls]
    ELSE LET r == ScanFiles(GlobFiles(subj, Locs[n], fs), 1, fs, ft, <<>>, calls)
         IN IF r.err # NoErr
            THEN [err |-> r.err, ft |-> r.ft, locfiles |-> locfiles, calls |-> r.calls]
            ELSE ScanLocs(subj, n + 1, fs, r.ft,
                          [locfiles EXCEPT ![Locs[n]] = r.entries], r.calls)

get_loc_file_details(subj, fs, ft, calls) ==
    ScanLocs(subj, 1, fs, ft, [l \in LocSet |-> <<>>], calls)

(***************************************************************************)
(* _update_duplicate_timestamp_files and                                   *)
(* _filter_out_duplicate_timestamp_files over all channels                 *)
(* (bookkeeping.py 285-338)                                                *)
(***************************************************************************)
RECURSIVE UpdateLocs(_, _, _)
UpdateLocs(locfiles, log, n) ==
    IF n > Len(Locs) THEN [err |-> NoErr, locfiles |-> locfiles, log |-> log]
    ELSE LET r == update_duplicate_channel(locfiles[Locs[n]], log)
         IN IF r.err # NoErr
            THEN [err |-> r.err, locfiles |-> locfiles, log |-> r.log]
            ELSE UpdateLocs([locfiles EXCEPT ![Locs[n]] = r.lv], r.log, n + 1)

update_duplicate_timestamp_files(locfiles, log) == UpdateLocs(locfiles, log, 1)

RECURSIVE FilterLocs(_, _, _)
FilterLocs(locfiles, log, n) ==
    IF n > Len(Locs) THEN [err |-> NoErr, locfiles |-> locfiles, log |-> log]
    ELSE LET r == filter_out_duplicate_channel(locfiles[Locs[n]], log)
         IN IF r.err # NoErr
            THEN [err |-> r.err, locfiles |-> locfiles, log |-> r.log]
            ELSE FilterLocs([locfiles EXCEPT ![Locs[n]] = r.lv], r.log, n + 1)

filter_out_duplicate_timestamp_files(locfiles, log) == FilterLocs(locfiles, log, 1)

(***************************************************************************)
(* BookKeeper.bookkeep  (bookkeeping.py 86-123)                            *)
(***************************************************************************)
\* lines 103-119 for one subject, last step first.  st is the run so far:
\* the cache ft, the plans summary, the log, the reader calls and the file
\* lists of the subjects done.
\* BookkeepProcess taking every artifact for built when the run has read no
\* source file.
BookkeepProcess_NothingReadNothingStale(subj, files, st, r4) ==
    IF r4.err # NoErr THEN [st EXCEPT !.err = r4.err]
    ELSE LET plan == get_files_to_be_processed(r4, files)
             built == [days |-> [d \in DOMAIN plan.days |->
                                   [raw |-> <<plan.days[d].raw[1], FALSE>>,
                                    ulfuncinst |-> <<plan.days[d].ulfuncinst[1], FALSE>>,
                                    ulfuncavrg |-> <<plan.days[d].ulfuncavrg[1], FALSE>>,
                                    src |-> plan.days[d].src]],
                       summary |-> [key \in SummaryKeys |->
                                      [k \in DOMAIN plan.summary[key] |->
                                          <<plan.summary[key][k][1], FALSE>>]]]
         IN [st EXCEPT !.summary =
                PutKey(st.summary, subj, IF st.calls = <<>> THEN built ELSE plan)]

\* lines 117-119, given the expected files r4.
BookkeepProcess(subj, files, st, r4) ==
    IF r4.err # NoErr THEN [st EXCEPT !.err = r4.err]
    ELSE [st EXCEPT !.summary =
              PutKey(st.summary, subj, get_files_to_be_processed(r4, files))]

\* line 113, given the filtered file lists r3.
BookkeepExpected(subj, files, aparams, st, r3) ==
    IF r3.err # NoErr THEN [st EXCEPT !.log = r3.log, !.err = r3.err]
    ELSE BookkeepProcess(subj, files,
             [st EXCEPT !.log = r3.log,
                        !.locfiles = PutKey(st.locfiles, subj, r3.locfiles)],
             get_expected_files_on_disk(subj, r3.locfiles, aparams))

\* line 110, given the marked file lists r2.
BookkeepFilter(subj, files, aparams, st, r2) ==
    IF r2.err # NoErr THEN [st EXCEPT !.log = r2.log, !.err = r2.err]
    ELSE BookkeepExpected(subj, files, aparams, st,
             filter_out_duplicate_timestamp_files(r2.locfiles, r2.log))

\* line 108, given the scanned file lists r1.
BookkeepUpdate(subj, files, aparams, st, r1) ==
    IF r1.err # NoErr
    THEN [st EXCEPT !.ft = r1.ft, !.calls = r1.calls, !.err = r1.err]
    ELSE BookkeepFilter(subj, files, aparams,
             [st EXCEPT !.ft = r1.ft, !.calls = r1.calls],
             update_duplicate_timestamp_files(r1.locfiles, st.log))

\* line 103 and on.
BookkeepSubject(subj, fs, files, aparams, st) ==
    BookkeepUpdate(subj, files, aparams, st,
                   get_loc_file_details(subj, fs, st.ft, st.calls))

\* lines 99-121: the subject directories in order; an exception ends the loop.
RECURSIVE BookkeepFrom(_, _, _, _, _, _)
BookkeepFrom(n, datadirs, fs, files, aparams, st) ==
    IF n > Len(SubjOrder) \/ st.err # NoErr THEN st
    ELSE IF SubjOrder[n] \notin datadirs
    THEN BookkeepFrom(n + 1, datadirs, fs, files, aparams, st)
    ELSE BookkeepFrom(n + 1, datadirs, fs, files, aparams,
                      BookkeepSubject(SubjOrder[n], fs, files, aparams, st))

\* lines 86-121.  datadirs: the directories of the data directory that pass
\* the test of line 95, i.e. whose path does not have "_output" in it.
bookkeep(datadirs, fs, files, aparams, ft) ==
    BookkeepFrom(1, datadirs, fs, files, aparams,
                 [err |-> NoErr, ft |-> ft, summary |-> EmptyDict, log |-> <<>>,
                  calls |-> <<>>, locfiles |-> EmptyDict])

(***************************************************************************)
(* The journal file and BookKeeper.__init__  (bookkeeping.py 40-62,        *)
(* 125-158)                                                                *)
(***************************************************************************)
\* The file bookkeeping.json: whether it exists, whether it parses as a JSON
\* object, and the object it holds.
NoJournal == [exists |-> FALSE, valid |-> TRUE, data |-> EmptyDict]

JournalFile(data) == [exists |-> TRUE, valid |-> TRUE, data |-> data]

\* The clock has TicksPerSecond ticks in a second.
TicksPerSecond == 2

\* line 45: dt.now().strftime("%D %T"), the start time to the second.
SessionKey(t) == t \div TicksPerSecond

\* lines 48-51: create the journal when there is none.
EnsureJournal(jf) == IF jf.exists THEN jf ELSE JournalFile(EmptyDict)

\* read_filetimes without the except clause of lines 130-131.
read_filetimes_NoExcept(jf) ==
    IF ~ jf.valid THEN [err |-> "JSONDecodeError", val |-> EmptyDict]
    ELSE IF "filetimes" \in DOMAIN jf.data
    THEN [err |-> NoErr, val |-> jf.data["filetimes"]]
    ELSE [err |-> "KeyError", val |-> EmptyDict]

\* read_filetimes tolerating every failure to load the journal, not only the
\* missing key.
read_filetimes_ExceptAll(jf) ==
    IF ~ jf.valid THEN [err |-> NoErr, val |-> EmptyDict]
    ELSE IF "filetimes" \in DOMAIN jf.data
    THEN [err |-> NoErr, val |-> jf.data["filetimes"]]
    ELSE [err |-> NoErr, val |-> EmptyDict]

\* read_filetimes starting every run from an empty cache.
read_filetimes_Fresh(jf) == [err |-> NoErr, val |-> EmptyDict]

\* lines 125-131
read_filetimes(jf) ==
    IF ~ jf.valid THEN [err |-> "JSONDecodeError", val |-> EmptyDict]
    ELSE IF "filetimes" \in DOMAIN jf.data
    THEN [err |-> NoErr, val |-> jf.data["filetimes"]]
    ELSE [err |-> NoErr, val |-> EmptyDict]

\* lines 135-141: the plans with their day keys formatted ("%D-%T" of a
\* midnight is the day).
NewBkData(summary) == [subj \in DOMAIN summary |-> summary[subj]]

\* lines 151-154: _filedata['summary'][self._currsess] = {...}
AddSession(history, currsess, record) == PutKey(history, currsess, record)

\* lines 143-158
update_bookkeping_file(jf, filetimes, summary, currsess, aparams) ==
    LET d1 == PutKey(jf.data, "filetimes", filetimes)
        d2 == IF "summary" \in DOMAIN d1 THEN d1 ELSE PutKey(d1, "summary", EmptyDict)
        d3 == PutKey(d2, "summary",
                     AddSession(d2["summary"], currsess,
                                [bkdetails |-> NewBkData(summary),
                                 analysisparams |-> aparams]))
    IN JournalFile(d3)

NoBookKeeper ==
    [status |-> "none", err |-> NoErr, currsess |-> 0, filetimes |-> EmptyDict,
     summary |-> EmptyDict, log |-> <<>>, aparams |-> EmptyDict,
     ft0 |-> EmptyDict, calls |-> <<>>, locfiles |-> EmptyDict, seen |-> <<>>]

\* BookKeeperSave writing the file times read so far to the journal also when
\* bookkeep raised.
BookKeeperSave_CacheOnAbort(jf1, currsess, aparams, ft0, st) ==
    [bk |-> [status |-> IF st.err = NoErr THEN "ok" ELSE "raised",
             err |-> st.err, currsess |-> currsess, filetimes |-> st.ft,
             summary |-> st.summary, log |-> st.log, aparams |-> aparams,
             ft0 |-> ft0, calls |-> st.calls, locfiles |-> st.locfiles,
             seen |-> <<>>],
     journal |-> IF st.err = NoErr
                 THEN update_bookkeping_file(jf1, st.ft, st.summary, currsess, aparams)
                 ELSE JournalFile(PutKey(jf1.data, "filetimes", st.ft))]

\* lines 59-62, given the outcome st of bookkeep: the object (status "ok")
\* or the trace of a construction that raised, and the journal file as the
\* run leaves it.
BookKeeperSave(jf1, currsess, aparams, ft0, st) ==
    [bk |-> [status |-> IF st.err = NoErr THEN "ok" ELSE "raised",
             err |-> st.err, currsess |-> currsess, filetimes |-> st.ft,
             summary |-> st.summary, log |-> st.log, aparams |-> aparams,
             ft0 |-> ft0, calls |-> st.calls, locfiles |-> st.locfiles,
             seen |-> <<>>],
     journal |-> IF st.err = NoErr
                 THEN update_bookkeping_file(jf1, st.ft, st.summary, currsess, aparams)
                 ELSE jf1]

\* lines 53-62, given the outcome r0 of _read_filetimes.
BookKeeperLoad(datadirs, fs, files, jf1, currsess, aparams, r0) ==
    IF r0.err # NoErr
    THEN [bk |-> [NoBookKeeper EXCEPT !.status = "raised", !.err = r0.err,
                                      !.currsess = currsess, !.aparams = aparams],
          journal |-> jf1]
    ELSE BookKeeperSave(jf1, currsess, aparams, r0.val,
                        bookkeep(datadirs, fs, files, aparams, r0.val))

\* lines 42-62
BookKeeperInit(datadirs, fs, files, jf, clock, aparams) ==
    BookKeeperLoad(datadirs, fs, files, EnsureJournal(jf), SessionKey(clock), aparams,
                   read_filetimes(EnsureJournal(jf)))

(***************************************************************************)
(* Analysis parameter sets of the runs.                                    *)
(***************************************************************************)
AParams(sr, dur, shift, wins) ==
    [ulfuncinstsamprate |-> sr, avgwindur |-> dur, avgwinshift |-> shift,
     summarywin |-> wins]

\* 10 Hz, a 60 s window shifted by 30 s, one 7-day summary.
DefaultAParams == AParams(10 * UnitsPerOne, 60 * UnitsPerOne, 30 * UnitsPerOne, <<7>>)

(***************************************************************************)
(* One run of the tracker.                                                 *)
(***************************************************************************)
\* What a run finds in the data directory: the subject directories, the
\* source files and the artifact files.
Seen == [dirs |-> subjdirs, fs |-> srcfs, disk |-> disk]

\* The object (or the trace of the failed construction) with the directory
\* content it was constructed from, and the journal file the run leaves.
Constructed(r) ==
    /\ bk' = [r.bk EXCEPT !.seen = Seen]
    /\ journal' = r.journal

Run(aparams) ==
    /\ Constructed(BookKeeperInit(subjdirs \ datadir.outpaths, srcfs, disk, journal, now, aparams))
    /\ nruns' = nruns + 1
    /\ steps' = steps + 1
    /\ UNCHANGED <<srcfs, subjdirs, disk, now>>
    /\ UNCHANGED idlevars

\* The constructions of the tracker that may run side by side.
Procs == {1, 2}

\* An invocation that has not started: no session, nothing loaded.
IdleProc ==
    [pc |-> "idle", err |-> NoErr, currsess |-> 0, filetimes |-> EmptyDict,
     summary |-> EmptyDict, filedata |-> EmptyDict, order |-> <<>>,
     towrite |-> EmptyDict, written |-> 0]

\* A data directory of ActiGraph files with its three parameter files and its
\* output directory.  bins holds the binary files of the rawdata directories,
\* each under the path of the source file it is converted to; outpaths holds
\* the subject directories whose path has "_output" in it (all of them when
\* the path of the data directory has).
ActiGraphDir ==
    [entries |-> {"data_params.json", "analysis_params.json",
                  "measures_params.json", "_output"},
     sensor |-> "ActiGraphGt3x",
     bins |-> [p \in SrcPaths |-> NoFile],
     outpaths |-> {}]

\* No invocation runs beside the single run, nothing has been generated, the
\* dashboard has listed no parameters, and processalldata has not been called
\* on the data directory.
ProcsIdle ==
    /\ procs = [p \in Procs |-> IdleProc]
    /\ gens = <<>>
    /\ aprmslist = <<>>
    /\ aprmsadded = <<>>
    /\ datadir = ActiGraphDir
    /\ presult = "none"
    /\ csvdisk = EmptyDict

DupIdle ==
    /\ lv = <<>>
    /\ olinx = [err |-> "unset", val |-> <<>>]
    /\ dlog = <<>>
    /\ dpc = "off"

RunIdle ==
    /\ ProcsIdle
    /\ srcfs = [p \in SrcPaths |-> NoFile]
    /\ subjdirs = {}
    /\ disk = EmptyDict
    /\ journal = NoJournal
    /\ now = 0
    /\ bk = NoBookKeeper
    /\ nruns = 0
    /\ steps = 0

(***************************************************************************)
(* processalldata  (processdata.py 128-232) and the generation functions   *)
(* of preprocess.py it calls.  A generation keeps g: the exception that    *)
(* ended processalldata (if any), the artifact files, and the calls made.  *)
(* Each generation writes the artifact file and, beside it, its .csv copy.  *)
(***************************************************************************)
GenCall(kind, subj, path, outcome) ==
    [kind |-> kind, subj |-> subj, path |-> path, outcome |-> outcome]

Raised(g, kind, subj, path, err) ==
    [g EXCEPT !.err = err, !.gens = Append(@, GenCall(kind, subj, path, "raised"))]

Skipped(g, kind, subj, path) ==
    [g EXCEPT !.gens = Append(@, GenCall(kind, subj, path, "skipped"))]

\* feather.write_feather of the artifact, then to_csv of its copy
\* (preprocess.py 96-97, 171-172, 243-244, 824-825, 937-938, 1015-1016): both
\* replace the file that is there.
Written(g, kind, subj, path) ==
    [g EXCEPT !.disk = PutKey(@, path, "data"),
              !.csv = PutKey(@, path, g.run),
              !.gens = Append(@, GenCall(kind, subj, path, "written"))]

\* feather.read_feather of an artifact file: a file made by a generation
\* holds a table, a missing or empty one does not.
ArtifactRead(files, path) ==
    IF path \notin DOMAIN files THEN "FileNotFoundError"
    ELSE IF files[path] = "empty" THEN "ArrowInvalid"
    ELSE NoErr

\* preprocess.py 64-90, channel after channel: the sources are read (71), and
\* the columns Date and Time dropped (80), which a channel without any source
\* for the day does not have.
RECURSIVE RawLocs(_, _, _)
RawLocs(src, fs, n) ==
    IF n > Len(Locs) THEN NoErr
    ELSE IF \E k \in DOMAIN src[Locs[n]] :
                ~ (fs[src[Locs[n]][k]].present /\ fs[src[Locs[n]][k]].ok)
    THEN "ReadError"
    ELSE IF src[Locs[n]] = <<>> THEN "KeyError"
    ELSE RawLocs(src, fs, n + 1)

\* preprocess.py 35-98
generate_save_raw_dayfile(g, subj, day, fs) ==
    IF RawLocs(day.src, fs, 1) # NoErr
    THEN Raised(g, "raw", subj, day.raw[1], RawLocs(day.src, fs, 1))
    ELSE Written(g, "raw", subj, day.raw[1])

\* preprocess.py 101-172
generate_save_ulfuncinst_dayfile(g, subj, day) ==
    IF day.raw[1] \notin DOMAIN g.disk
    THEN Skipped(g, "ulfuncinst", subj, day.ulfuncinst[1])
    ELSE IF ArtifactRead(g.disk, day.raw[1]) # NoErr
    THEN Raised(g, "ulfuncinst", subj, day.ulfuncinst[1], ArtifactRead(g.disk, day.raw[1]))
    ELSE Written(g, "ulfuncinst", subj, day.ulfuncinst[1])

\* preprocess.py 175-245
generate_save_ulfuncavrg_dayfile(g, subj, day) ==
    IF day.raw[1] \notin DOMAIN g.disk \/ day.ulfuncinst[1] \notin DOMAIN g.disk
    THEN Skipped(g, "ulfuncavrg", subj, day.ulfuncavrg[1])
    ELSE IF ArtifactRead(g.disk, day.raw[1]) # NoErr
    THEN Raised(g, "ulfuncavrg", subj, day.ulfuncavrg[1], ArtifactRead(g.disk, day.raw[1]))
    ELSE IF ArtifactRead(g.disk, day.ulfuncinst[1]) # NoErr
    THEN Raised(g, "ulfuncavrg", subj, day.ulfuncavrg[1],
                ArtifactRead(g.disk, day.ulfuncinst[1]))
    ELSE Written(g, "ulfuncavrg", subj, day.ulfuncavrg[1])

\* preprocess.py 784, 844, 956: the ulfuncavrg file of every day is read, in
\* the order of the days.
AvrgRead(files, plan) ==
    LET bad == {d \in DOMAIN plan.days :
                   ArtifactRead(files, plan.days[d].ulfuncavrg[1]) # NoErr}
    IN IF bad = {} THEN NoErr
       ELSE ArtifactRead(files, plan.days[SetMin(bad)].ulfuncavrg[1])

\* preprocess.py 772-826 (and 830-939, 943-1017): the files of one summary
\* kind from the k-th on; a file not flagged is passed over.
RECURSIVE GenSummaryFiles(_, _, _, _, _)
GenSummaryFiles(g, subj, plan, key, k) ==
    IF k > Len(plan.summary[key]) \/ g.err # NoErr THEN g
    ELSE IF ~ plan.summary[key][k][2] THEN GenSummaryFiles(g, subj, plan, key, k + 1)
    ELSE IF AvrgRead(g.disk, plan) # NoErr
    THEN Raised(g, "summary", subj, plan.summary[key][k][1], AvrgRead(g.disk, plan))
    ELSE GenSummaryFiles(Written(g, "summary", subj, plan.summary[key][k][1]),
                         subj, plan, key, k + 1)

\* preprocess.py 248-290.  The test of lines 275-278 compares a numpy bool
\* with `is False` and never returns.
generate_save_ulfunc_summary(g, subj, plan) ==
    GenSummaryFiles(GenSummaryFiles(GenSummaryFiles(g, subj, plan, "hq", 1),
                                    subj, plan, "rq", 1),
                    subj, plan, "li", 1)

\* processdata.py 31-52
is_sumary_to_be_generated(plan) ==
    \E key \in SummaryKeys : \E k \in DOMAIN plan.summary[key] : plan.summary[key][k][2]

\* RawLoop without the test of lines 175-176: the raw file of every day is
\* generated.
RECURSIVE RawLoop_EveryDay(_, _, _, _, _)
RawLoop_EveryDay(g, subj, plan, d, fs) ==
    IF d \notin DOMAIN plan.days \/ g.err # NoErr THEN g
    ELSE RawLoop_EveryDay(generate_save_raw_dayfile(g, subj, plan.days[d], fs),
                          subj, plan, d + 1, fs)

\* processdata.py 172-185: the raw files of the days from d on.
RECURSIVE RawLoop(_, _, _, _, _)
RawLoop(g, subj, plan, d, fs) ==
    IF d \notin DOMAIN plan.days \/ g.err # NoErr THEN g
    ELSE IF ~ plan.days[d].raw[2] THEN RawLoop(g, subj, plan, d + 1, fs)
    ELSE RawLoop(generate_save_raw_dayfile(g, subj, plan.days[d], fs),
                 subj, plan, d + 1, fs)

\* processdata.py 189-202
RECURSIVE InstLoop(_, _, _, _)
InstLoop(g, subj, plan, d) ==
    IF d \notin DOMAIN plan.days \/ g.err # NoErr THEN g
    ELSE IF ~ plan.days[d].ulfuncinst[2] THEN InstLoop(g, subj, plan, d + 1)
    ELSE InstLoop(generate_save_ulfuncinst_dayfile(g, subj, plan.days[d]),
                  subj, plan, d + 1)

\* processdata.py 206-219
RECURSIVE AvrgLoop(_, _, _, _)
AvrgLoop(g, subj, plan, d) ==
    IF d \notin DOMAIN plan.days \/ g.err # NoErr THEN g
    ELSE IF ~ plan.days[d].ulfuncavrg[2] THEN AvrgLoop(g, subj, plan, d + 1)
    ELSE AvrgLoop(generate_save_ulfuncavrg_dayfile(g, subj, plan.days[d]),
                  subj, plan, d + 1)

\* processdata.py 223-231
SummaryStep(g, subj, plan) ==
    IF g.err # NoErr \/ ~ is_sumary_to_be_generated(plan) THEN g
    ELSE generate_save_ulfunc_summary(g, subj, plan)

FirstDay(plan) == SetMin(DOMAIN plan.days)

\* ProcessSubject with the loop of lines 189-202 ahead of that of lines
\* 172-185.
ProcessSubject_InstFirst(g, subj, plan, fs) ==
    SummaryStep(AvrgLoop(RawLoop(InstLoop(g, subj, plan, FirstDay(plan)),
                                 subj, plan, FirstDay(plan), fs),
                         subj, plan, FirstDay(plan)),
                subj, plan)

\* processdata.py 168-231 for one subject.
ProcessSubject(g, subj, plan, fs) ==
    SummaryStep(AvrgLoop(InstLoop(RawLoop(g, subj, plan, FirstDay(plan), fs),
                                  subj, plan, FirstDay(plan)),
                         subj, plan, FirstDay(plan)),
                subj, plan)

\* processdata.py 168: the subjects of the plan, in the order they were
\* planned; an exception ends the loop.
RECURSIVE ProcessFrom(_, _, _, _)
ProcessFrom(g, n, summary, fs) ==
    IF n > Len(SubjOrder) \/ g.err # NoErr THEN g
    ELSE IF SubjOrder[n] \notin DOMAIN summary THEN ProcessFrom(g, n + 1, summary, fs)
    ELSE ProcessFrom(ProcessSubject(g, SubjOrder[n], summary[SubjOrder[n]], fs),
                     n + 1, summary, fs)

NoGeneration(files, copies, run) ==
    [err |-> NoErr, disk |-> files, gens |-> <<>>, csv |-> copies, run |-> run]

\* dashsupport.py 76-112.  The data directory itself exists.
is_valid_data_directory(dir) ==
    {"data_params.json", "analysis_params.json", "_output"} \subseteq dir.entries

\* The orders in which the globs of processdata.py 67 and 78 may list the
\* binary files: the subjects in their order, the files of one subject's
\* rawdata directory in the order of the directory, whatever it is.
GlobOrders ==
    {order \in [DOMAIN SrcOrder -> SrcPaths] :
        /\ \A i, j \in DOMAIN SrcOrder : i # j => order[i] # order[j]
        /\ \A i \in DOMAIN SrcOrder : order[i].subj = SrcOrder[i].subj}

\* processdata.py 55-95: the binary files from the k-th of the order on.  A
\* binary file of a subject directory is converted when its csv file is not
\* there (77-80); one that cannot be decoded raises the error of its defect
\* (84: ValueError, struct.error or UnicodeDecodeError of arimulib.py
\* 56-94), after the files before it were written (89-95).
RECURSIVE preprocess_arimu_binaryfiles(_, _, _, _, _)
preprocess_arimu_binaryfiles(k, order, dir, dirs, r) ==
    IF k > Len(order) \/ r.err # NoErr THEN r
    ELSE IF \/ order[k].subj \notin dirs
            \/ ~ dir.bins[order[k]].present
            \/ r.fs[order[k]].present
    THEN preprocess_arimu_binaryfiles(k + 1, order, dir, dirs, r)
    ELSE IF ~ dir.bins[order[k]].ok THEN [r EXCEPT !.err = dir.bins[order[k]].err]
    ELSE preprocess_arimu_binaryfiles(
             k + 1, order, dir, dirs,
             [r EXCEPT !.fs[order[k]] =
                           SensorFile(dir.bins[order[k]].first, dir.bins[order[k]].last)])

\* processdata.py 137-158: what comes before the construction of the tracker.
\* An invalid directory ends processalldata (137-140); data_params.json
\* naming an unsupported sensor raises at dashconfig.py 218, a missing
\* measures_params.json at dashconfig.py 271; the binary files of an ARIMU
\* directory are converted to source files (156-158), in the given order.
Prepared(order, dir, dirs, fs) ==
    IF ~ is_valid_data_directory(dir)
    THEN [err |-> "Nothing to analyse.", fs |-> fs]
    ELSE IF dir.sensor \notin {"ActiGraphGt3x", "ARIMU"}
    THEN [err |-> "KeyError", fs |-> fs]
    ELSE IF "measures_params.json" \notin dir.entries
    THEN [err |-> "FileNotFoundError", fs |-> fs]
    ELSE IF dir.sensor = "ARIMU"
    THEN preprocess_arimu_binaryfiles(1, order, dir, dirs, [err |-> NoErr, fs |-> fs])
    ELSE [err |-> NoErr, fs |-> fs]

\* processdata.py 162-232 over the source files fs, given the outcome r of
\* the construction of line 162: an exception there ends processalldata.
Processed(r, fs) ==
    /\ bk' = [r.bk EXCEPT !.seen = [Seen EXCEPT !.fs = fs]]
    /\ journal' = r.journal
    /\ disk' = (IF r.bk.status = "ok"
                THEN ProcessFrom(NoGeneration(disk, csvdisk, nruns + 1), 1, r.bk.summary, fs)
                ELSE NoGeneration(disk, csvdisk, nruns + 1)).disk
    /\ csvdisk' = (IF r.bk.status = "ok"
                   THEN ProcessFrom(NoGeneration(disk, csvdisk, nruns + 1), 1,
                                    r.bk.summary, fs)
                   ELSE NoGeneration(disk, csvdisk, nruns + 1)).csv
    /\ gens' = (IF r.bk.status = "ok"
                THEN ProcessFrom(NoGeneration(disk, csvdisk, nruns + 1), 1, r.bk.summary, fs)
                ELSE NoGeneration(disk, csvdisk, nruns + 1)).gens
    /\ presult' = (IF r.bk.status = "ok"
                   THEN ProcessFrom(NoGeneration(disk, csvdisk, nruns + 1), 1,
                                    r.bk.summary, fs).err
                   ELSE r.bk.err)

\* processdata.py 128-232
processalldata(aparams) ==
    /\ \E order \in GlobOrders :
          /\ IF Prepared(order, datadir, subjdirs, srcfs).err # NoErr
             THEN /\ presult' = Prepared(order, datadir, subjdirs, srcfs).err
                  /\ gens' = <<>>
                  /\ UNCHANGED <<disk, journal, bk, nruns, csvdisk>>
             ELSE /\ Processed(BookKeeperInit(subjdirs \ datadir.outpaths,
                                              Prepared(order, datadir, subjdirs, srcfs).fs,
                                              disk, journal, now, aparams),
                               Prepared(order, datadir, subjdirs, srcfs).fs)
                  /\ nruns' = nruns + 1
          /\ srcfs' = Prepared(order, datadir, subjdirs, srcfs).fs
    /\ steps' = steps + 1
    /\ UNCHANGED <<subjdirs, now, procs, datadir>>
    /\ UNCHANGED <<lv, olinx, dlog, dpc, aprmslist, aprmsadded>>

(***************************************************************************)
(* Journal runs: runs of the tracker over a data directory whose source    *)
(* files come and go while the clock advances.                             *)
(***************************************************************************)
\* The content a source file has when it appears.  The second file of s1's
\* channel L overlaps the first one; the file of s2 may be unreadable.
Arrivals(p) ==
    IF p = SrcPath("s1", "L", 0) THEN {SensorFile(0, 1)}
    ELSE IF p = SrcPath("s1", "L", 1) THEN {SensorFile(1, 3)}
    ELSE IF p = SrcPath("s1", "R", 0) THEN {SensorFile(2, 2)}
    ELSE {SensorFile(0, 0), BadFile}

Init ==
    /\ DupIdle
    /\ ProcsIdle
    /\ srcfs = [p \in SrcPaths |-> NoFile]
    /\ subjdirs \in {{"s1"}, {"s1", "s2"}}
    /\ disk = EmptyDict
    /\ journal = NoJournal
    /\ now = 0
    /\ bk = NoBookKeeper
    /\ nruns = 0
    /\ steps = 0

RunTracker ==
    /\ steps < MaxSteps
    /\ Run(DefaultAParams)

Tick ==
    /\ steps < MaxSteps
    /\ now' = now + 1
    /\ steps' = steps + 1
    /\ UNCHANGED <<srcfs, subjdirs, disk, journal, bk, nruns>>
    /\ UNCHANGED idlevars

AddSourceFile ==
    /\ steps < MaxSteps
    /\ \E p \in SrcPaths :
          /\ p.subj \in subjdirs
          /\ ~ srcfs[p].present
          /\ \E c \in Arrivals(p) : srcfs' = [srcfs EXCEPT ![p] = c]
    /\ steps' = steps + 1
    /\ UNCHANGED <<subjdirs, disk, journal, now, bk, nruns>>
    /\ UNCHANGED idlevars

DeleteSourceFile ==
    /\ steps < MaxSteps
    /\ \E p \in SrcPaths :
          /\ srcfs[p].present
          /\ srcfs' = [srcfs EXCEPT ![p] = NoFile]
    /\ steps' = steps + 1
    /\ UNCHANGED <<subjdirs, disk, journal, now, bk, nruns>>
    /\ UNCHANGED idlevars

Next == RunTracker \/ Tick \/ AddSourceFile \/ DeleteSourceFile

Spec == Init /\ [][Next]_vars

(***************************************************************************)
(* Staleness runs: runs of the tracker over fixed source files while       *)
(* artifact files appear and disappear.                                    *)
(***************************************************************************)
\* Every artifact path of a subject's plan.
PlanPaths(plan) ==
    UNION {{plan.days[d].raw[1], plan.days[d].ulfuncinst[1], plan.days[d].ulfuncavrg[1]} :
              d \in DOMAIN plan.days}
    \cup UNION {{plan.summary[key][k][1] : k \in DOMAIN plan.summary[key]} :
                   key \in SummaryKeys}

\* Every [path, needsBuild] pair of a subject's plan.
PlanItems(plan) ==
    UNION {{plan.days[d].raw, plan.days[d].ulfuncinst, plan.days[d].ulfuncavrg} :
              d \in DOMAIN plan.days}
    \cup UNION {{plan.summary[key][k] : k \in DOMAIN plan.summary[key]} :
                   key \in SummaryKeys}

InitDisk ==
    /\ DupIdle
    /\ ProcsIdle
    /\ srcfs = [p \in SrcPaths |->
                  IF p = SrcPath("s1", "L", 0) THEN SensorFile(0, 1)
                  ELSE IF p = SrcPath("s1", "R", 0) THEN SensorFile(2, 2)
                  ELSE NoFile]
    /\ subjdirs = {"s1"}
    /\ disk = EmptyDict
    /\ journal = NoJournal
    /\ now = 0
    /\ bk = NoBookKeeper
    /\ nruns = 0
    /\ steps = 0

StaleRun ==
    /\ steps < MaxDiskSteps
    /\ Run(DefaultAParams)

\* Somebody creates an empty file at a planned artifact path.
TouchArtifact ==
    /\ steps < MaxDiskSteps
    /\ \E subj \in DOMAIN bk.summary : \E path \in PlanPaths(bk.summary[subj]) :
          /\ path \notin DOMAIN disk
          /\ disk' = PutKey(disk, path, "empty")
    /\ steps' = steps + 1
    /\ UNCHANGED <<srcfs, subjdirs, journal, now, bk, nruns>>
    /\ UNCHANGED idlevars

\* Somebody deletes an artifact file.
RemoveArtifact ==
    /\ steps < MaxDiskSteps
    /\ \E path \in DOMAIN disk :
          disk' = [q \in DOMAIN disk \ {path} |-> disk[q]]
    /\ steps' = steps + 1
    /\ UNCHANGED <<srcfs, subjdirs, journal, now, bk, nruns>>
    /\ UNCHANGED idlevars

NextDisk == StaleRun \/ TouchArtifact \/ RemoveArtifact

SpecDisk == InitDisk /\ [][NextDisk]_vars

(***************************************************************************)
(* Parameter runs: runs of the tracker over fixed source files under       *)
(* changing analysis parameters.                                           *)
(***************************************************************************)
\* Rates 10, 10 + 1/256 and 10 + 3/256 Hz ("10.00", "10.00", "10.01");
\* windows of 60 s and 30 s shifted by 30 s; summaries over 7, or 7 and 14 days.
KeyParams ==
    {AParams(sr, w[1], w[2], wins) :
        sr \in {10 * UnitsPerOne, 10 * UnitsPerOne + 1, 10 * UnitsPerOne + 3},
        w \in {<<60 * UnitsPerOne, 30 * UnitsPerOne>>, <<30 * UnitsPerOne, 30 * UnitsPerOne>>},
        wins \in {<<7>>, <<7, 14>>}}

InitKeys ==
    /\ DupIdle
    /\ ProcsIdle
    /\ srcfs = [p \in SrcPaths |->
                  IF p = SrcPath("s1", "L", 0) THEN SensorFile(0, 1) ELSE NoFile]
    /\ subjdirs = {"s1"}
    /\ disk = EmptyDict
    /\ journal = NoJournal
    /\ now = 0
    /\ bk = NoBookKeeper
    /\ nruns = 0
    /\ steps = 0

KeyRun ==
    /\ nruns < MaxRuns
    /\ \E aparams \in KeyParams : Run(aparams)

KeyTick ==
    /\ now < MaxClock
    /\ now' = now + 1
    /\ UNCHANGED <<srcfs, subjdirs, disk, journal, bk, nruns, steps>>
    /\ UNCHANGED idlevars

NextKeys == KeyRun \/ KeyTick

SpecKeys == InitKeys /\ [][NextKeys]_vars

(***************************************************************************)
(* Journal files: runs of the tracker, some of them killed on the way, over *)
(* one source file and the journal files a run may find.                   *)
(***************************************************************************)
\* A journal file opened for writing whose content has not (or only partly)
\* been written: it exists and does not parse.
TruncatedJournal == [exists |-> TRUE, valid |-> FALSE, data |-> EmptyDict]

\* A session record of an earlier run, under the key of an earlier second.
OldSession == -1

OldRecord == [bkdetails |-> EmptyDict, analysisparams |-> DefaultAParams]

\* The journal files a first run may find: none, the empty object, objects
\* with one of the two keys only, a complete journal and an unparsable file.
FoundJournals ==
    {NoJournal,
     JournalFile(EmptyDict),
     JournalFile(PutKey(EmptyDict, "filetimes",
                        PutKey(EmptyDict, SrcPath("s1", "L", 0), <<0, 1>>))),
     JournalFile(PutKey(EmptyDict, "summary", PutKey(EmptyDict, OldSession, OldRecord))),
     JournalFile(PutKey(PutKey(EmptyDict, "filetimes", EmptyDict),
                        "summary", PutKey(EmptyDict, OldSession, OldRecord))),
     TruncatedJournal}

InitJournal ==
    /\ DupIdle
    /\ ProcsIdle
    /\ srcfs = [p \in SrcPaths |->
                  IF p = SrcPath("s1", "L", 0) THEN SensorFile(0, 1) ELSE NoFile]
    /\ subjdirs = {"s1"}
    /\ disk = EmptyDict
    /\ journal \in FoundJournals
    /\ now = 0
    /\ bk = NoBookKeeper
    /\ nruns = 0
    /\ steps = 0

\* The places at which a run of BookKeeper.__init__ may be killed: before it
\* touches the journal; between the open of line 49 and the end of the dump
\* of line 50; between line 50 and the open of line 157; between the open of
\* line 157 and the end of the dump of line 158.
KillPoints == {"start", "creating", "bookkeeping", "saving"}

\* The journal file a run killed at the point leaves behind; r is what the
\* run would have left had it run to its end.
JournalAtKill(point, jf, r) ==
    IF point = "start" THEN jf
    ELSE IF point = "creating" THEN TruncatedJournal
    ELSE IF point = "bookkeeping" THEN EnsureJournal(jf)
    ELSE TruncatedJournal

\* Whether a run reaches the point at all.
ReachesKillPoint(point, jf, r) ==
    IF point = "creating" THEN ~ jf.exists
    ELSE IF point = "saving" THEN r.bk.status = "ok"
    ELSE TRUE

Killed(point, r) ==
    /\ ReachesKillPoint(point, journal, r)
    /\ journal' = JournalAtKill(point, journal, r)
    /\ bk' = [NoBookKeeper EXCEPT !.status = "killed", !.currsess = SessionKey(now),
                                  !.aparams = DefaultAParams, !.seen = Seen]

JournalRun ==
    /\ steps < MaxRuns
    /\ Run(DefaultAParams)

KilledRun ==
    /\ steps < MaxRuns
    /\ \E point \in KillPoints :
          Killed(point, BookKeeperInit(subjdirs \ datadir.outpaths, srcfs, disk, journal, now,
                                       DefaultAParams))
    /\ steps' = steps + 1
    /\ UNCHANGED <<srcfs, subjdirs, disk, now, nruns>>
    /\ UNCHANGED idlevars

NextJournal == JournalRun \/ KilledRun \/ KeyTick

SpecJournal == InitJournal /\ [][NextJournal]_vars

(***************************************************************************)
(* Processing runs: processalldata over a data directory whose artifact    *)
(* files appear and disappear.  The data directories are the ActiGraph     *)
(* directory, whole, with one entry missing, and at a path with "_output"  *)
(* in it; one whose data_params.json names a sensor that is not supported; *)
(* ARIMU directories with the binary file of a second file of s1's channel *)
(* L over day 1, alone (also at a path with "_output" in it) and beside a  *)
(* binary file of s2 or of s1's channel R that cannot be converted.        *)
(***************************************************************************)
\* The source files of s1: both channels over day 0; both channels over the
\* days 0 and 1; channel L over day 0 and channel R over the days 0 and 1;
\* with a file of s2; channel L alone.
ProcSources ==
    {[p \in SrcPaths |->
        IF p = SrcPath("s1", "L", 0) THEN SensorFile(0, 1)
        ELSE IF p = SrcPath("s1", "R", 0) THEN SensorFile(0, 1)
        ELSE NoFile],
     [p \in SrcPaths |->
        IF p = SrcPath("s1", "L", 0) THEN SensorFile(0, 3)
        ELSE IF p = SrcPath("s1", "R", 0) THEN SensorFile(0, 3)
        ELSE NoFile],
     [p \in SrcPaths |->
        IF p = SrcPath("s1", "L", 0) THEN SensorFile(0, 1)
        ELSE IF p = SrcPath("s1", "R", 0) THEN SensorFile(0, 3)
        ELSE NoFile],
     [p \in SrcPaths |->
        IF p = SrcPath("s1", "L", 0) THEN SensorFile(0, 1)
        ELSE IF p = SrcPath("s1", "R", 0) THEN SensorFile(0, 1)
        ELSE IF p = SrcPath("s2", "L", 0) THEN SensorFile(0, 1)
        ELSE NoFile],
     [p \in SrcPaths |->
        IF p = SrcPath("s1", "L", 0) THEN SensorFile(0, 1) ELSE NoFile]}

\* The errors arimulib.py raises on a binary file that cannot be converted:
\* no comma or an impossible date (56, 63, 70, 92), a number too large for
\* a date (71), a file cut inside its header or a row (69, 73, 89, 94), a
\* name that is not UTF-8 (57), no row at all (112-113).
ProcDirs ==
    {ActiGraphDir, [ActiGraphDir EXCEPT !.sensor = "Other"],
     [ActiGraphDir EXCEPT !.outpaths = {"s1", "s2"}]}
    \cup {[ActiGraphDir EXCEPT !.entries = @ \ {e}] : e \in ActiGraphDir.entries}
    \cup {[ActiGraphDir EXCEPT
              !.sensor = "ARIMU",
              !.outpaths = bad[3],
              !.bins = [p \in SrcPaths |->
                          IF p = SrcPath("s1", "L", 1) THEN SensorFile(2, 3)
                          ELSE IF p = bad[1] /\ bad[2] # NoErr
                          THEN [present |-> TRUE, ok |-> FALSE, first |-> 0,
                                last |-> 0, err |-> bad[2]]
                          ELSE NoFile]] :
           bad \in ({SrcPath("s2", "L", 0)}
                       \X {NoErr, "ValueError", "OverflowError", "struct.error",
                           "UnicodeDecodeError", "IndexError"}
                       \X {{}})
                    \cup {<<SrcPath("s1", "R", 0), "ValueError", {}>>,
                          <<SrcPath("s2", "L", 0), NoErr, {"s1", "s2"}>>}}

InitProc ==
    /\ DupIdle
    /\ procs = [p \in Procs |-> IdleProc]
    /\ gens = <<>>
    /\ aprmslist = <<>>
    /\ aprmsadded = <<>>
    /\ datadir \in ProcDirs
    /\ presult = "none"
    /\ csvdisk = EmptyDict
    /\ srcfs \in ProcSources
    /\ subjdirs = {p.subj : p \in {q \in SrcPaths : srcfs[q].present
                                                    \/ datadir.bins[q].present}}
    /\ disk = EmptyDict
    /\ journal = NoJournal
    /\ now = 0
    /\ bk = NoBookKeeper
    /\ nruns = 0
    /\ steps = 0

ProcessRun ==
    /\ steps < MaxDiskSteps
    /\ processalldata(DefaultAParams)

NextProc == ProcessRun \/ TouchArtifact \/ RemoveArtifact

SpecProc == InitProc /\ [][NextProc]_vars

(***************************************************************************)
(* Concurrent constructions of the tracker: BookKeeper.__init__ (lines      *)
(* 40-62) entered twice on one data directory.  Each construction goes     *)
(* through the steps between which the other may touch the journal file:   *)
(* line 45 (session key), line 48 (does the file exist), line 49 (open for *)
(* writing), line 50 (dump of {}), lines 57-58 (load), line 59 (bookkeep), *)
(* lines 144-145 (read the file), lines 148-157 (merge, open for writing), *)
(* line 158 (dump, one OS-level write of the handle after the other).  The *)
(* runs end where the constructor returns or raises; what a caller does    *)
(* with the tracker afterwards is not part of them.                        *)
(***************************************************************************)
\* MergeBase re-reading the journal file at the time of the merge.
MergeBase_Reread(local, jf) == IF jf.valid THEN jf.data ELSE local

\* lines 144-154: the object the session of the run is merged into is the one
\* read at lines 144-145, whatever the file holds by now.
MergeBase(local, jf) == local

\* The text json.dump writes for the object x, in the units between and
\* inside which the buffer of the file handle may be flushed (the buffer is
\* flushed at a byte count, wherever that falls in the text): the opening
\* with the file-time cache in two parts, then for every session record its
\* key and the record in two parts, the second part of the last record with
\* the closing braces.  The records follow in the order of the dict: order
\* lists the keys as the file read at lines 144-145 had them, with the key
\* assigned at line 151 behind them when it is new; keys of x that order
\* lacks follow by value.  The text of an object without session records,
\* such as {}, is one short unit.
Text(x, order) ==
    IF "summary" \notin DOMAIN x \/ DOMAIN x["summary"] = {}
    THEN <<[kind |-> "object", part |-> 1, key |-> 0, val |-> x, last |-> TRUE]>>
    ELSE LET keys == DOMAIN x["summary"]
             listed == SelectSeq(order, LAMBDA k : k \in keys)
             rest == keys \ {order[i] : i \in DOMAIN order}
             RestAt(i) == CHOOSE k \in rest : Cardinality({j \in rest : j < k}) = i - 1
             all == listed \o [i \in 1..Cardinality(rest) |-> RestAt(i)]
             KeyOf(j) == all[((j - 3) \div 3) + 1]
         IN [j \in 1..(2 + 3 * Len(all)) |->
                IF j <= 2
                THEN [kind |-> "filetimes", part |-> j, key |-> 0,
                      val |-> x["filetimes"], last |-> FALSE]
                ELSE IF (j - 3) % 3 = 0
                THEN [kind |-> "key", part |-> 1, key |-> KeyOf(j),
                      val |-> EmptyDict, last |-> FALSE]
                ELSE [kind |-> "record", part |-> (j - 3) % 3, key |-> KeyOf(j),
                      val |-> x["summary"][KeyOf(j)],
                      last |-> (j = 2 + 3 * Len(all))]]

\* The journal file after an OS-level write of the units chunk at the
\* position off of a handle, on a file that holds the units cells: the file
\* is filled with zero bytes up to the position, the units replace what was
\* there, and what lay behind them stays; a short unit over a longer one
\* leaves the tail of that one.  json.load accepts the file when it is the
\* text of an object: one short unit, or the two parts of one opening and
\* then, for every session, a key and the two parts of one record, the last
\* record alone closing the object.  The object read has the session keys in
\* the order of the file (keys), a repeated key at its first place with its
\* last record.
WriteAt(cells, off, chunk) ==
    LET n == IF Len(cells) > off + Len(chunk) THEN Len(cells) ELSE off + Len(chunk)
        Filler(kind) == [kind |-> kind, part |-> 1, key |-> 0, val |-> EmptyDict,
                         last |-> FALSE]
        text == [i \in 1..n |->
                    IF i > off /\ i <= off + Len(chunk)
                    THEN IF /\ chunk[i - off].kind = "object"
                            /\ i <= Len(cells)
                            /\ cells[i].kind # "object"
                         THEN Filler("garbage")
                         ELSE chunk[i - off]
                    ELSE IF i <= Len(cells) THEN cells[i]
                    ELSE Filler("zero")]
        short == n = 1 /\ text[1].kind = "object"
        m == (n - 2) \div 3
        Whole(i, kind) == /\ text[i].kind = kind /\ text[i].part = 1
                          /\ text[i + 1].kind = kind /\ text[i + 1].part = 2
                          /\ text[i].val = text[i + 1].val
        long == /\ n >= 5 /\ (n - 2) % 3 = 0
                /\ Whole(1, "filetimes")
                /\ \A s \in 1..m : /\ text[3 * s].kind = "key"
                                   /\ Whole(3 * s + 1, "record")
                                   /\ (text[3 * s + 2].last <=> s = m)
        At(key) == CHOOSE s \in 1..m :
                       /\ text[3 * s].key = key
                       /\ \A t \in 1..m : text[3 * t].key = key => t <= s
        firsts == {s \in 1..m : \A t \in 1..(s - 1) : text[3 * t].key # text[3 * s].key}
        FirstAt(i) == CHOOSE s \in firsts : Cardinality({t \in firsts : t < s}) = i - 1
    IN [exists |-> TRUE,
        valid |-> short \/ long,
        data |-> IF short THEN text[1].val
                 ELSE IF long
                 THEN PutKey(PutKey(EmptyDict, "filetimes", text[1].val), "summary",
                             [key \in {text[3 * s].key : s \in 1..m} |->
                                 text[3 * At(key) + 1].val])
                 ELSE EmptyDict,
        keys |-> IF long THEN [i \in 1..Cardinality(firsts) |-> text[3 * FirstAt(i)].key]
                 ELSE <<>>,
        text |-> text]

\* line 45: the session key of the invocation.
ConcStart(p) ==
    /\ procs[p].pc = "idle"
    /\ procs' = [procs EXCEPT ![p] =
                    [IdleProc EXCEPT !.pc = "started", !.currsess = SessionKey(now)]]
    /\ UNCHANGED <<srcfs, subjdirs, disk, journal, now, bk, nruns, steps, gens>>
    /\ UNCHANGED dupvars

\* line 48: os.path.exists(self.bkfile)
ConcExists(p) ==
    /\ procs[p].pc = "started"
    /\ procs' = [procs EXCEPT ![p] =
                    [@ EXCEPT !.pc = IF journal.exists THEN "loading" ELSE "creating"]]
    /\ UNCHANGED <<srcfs, subjdirs, disk, journal, now, bk, nruns, steps, gens>>
    /\ UNCHANGED dupvars

\* line 49: the open that creates the file, or truncates the one another
\* invocation has written since line 48.
ConcCreateOpen(p) ==
    /\ procs[p].pc = "creating"
    /\ procs' = [procs EXCEPT ![p] = [@ EXCEPT !.pc = "created"]]
    /\ journal' = WriteAt(<<>>, 0, <<>>)
    /\ UNCHANGED <<srcfs, subjdirs, disk, now, bk, nruns, steps, gens>>
    /\ UNCHANGED dupvars

\* line 50: json.dump({}, fh), written when the handle is closed.
ConcCreateDump(p) ==
    /\ procs[p].pc = "created"
    /\ procs' = [procs EXCEPT ![p] = [@ EXCEPT !.pc = "loading"]]
    /\ journal' = WriteAt(journal.text, 0, Text(EmptyDict, <<>>))
    /\ UNCHANGED <<srcfs, subjdirs, disk, now, bk, nruns, steps, gens>>
    /\ UNCHANGED dupvars

\* lines 57-58, 127-131: _read_filetimes on the file as it is now.
ConcLoad(p) ==
    /\ procs[p].pc = "loading"
    /\ procs' = [procs EXCEPT ![p] =
                    IF read_filetimes(journal).err # NoErr
                    THEN [@ EXCEPT !.pc = "raised", !.err = read_filetimes(journal).err]
                    ELSE [@ EXCEPT !.pc = "bookkeeping",
                                   !.filetimes = read_filetimes(journal).val]]
    /\ UNCHANGED <<srcfs, subjdirs, disk, journal, now, bk, nruns, steps, gens>>
    /\ UNCHANGED dupvars

\* line 59: bookkeep, from the file times loaded.
ConcBookkeep(p) ==
    /\ procs[p].pc = "bookkeeping"
    /\ LET st == bookkeep(subjdirs \ datadir.outpaths, srcfs, disk, DefaultAParams,
                          procs[p].filetimes)
       IN procs' = [procs EXCEPT ![p] =
                       [@ EXCEPT !.pc = IF st.err = NoErr THEN "loaded" ELSE "raised",
                                 !.err = st.err, !.filetimes = st.ft,
                                 !.summary = st.summary]]
    /\ UNCHANGED <<srcfs, subjdirs, disk, journal, now, bk, nruns, steps, gens>>
    /\ UNCHANGED dupvars

\* lines 144-145
ConcSaveRead(p) ==
    /\ procs[p].pc = "loaded"
    /\ procs' = [procs EXCEPT ![p] =
                    IF journal.valid
                    THEN [@ EXCEPT !.pc = "merging", !.filedata = journal.data,
                                   !.order = journal.keys]
                    ELSE [@ EXCEPT !.pc = "raised", !.err = "JSONDecodeError"]]
    /\ UNCHANGED <<srcfs, subjdirs, disk, journal, now, bk, nruns, steps, gens>>
    /\ UNCHANGED dupvars

\* lines 148-157: the merge, then the open that truncates the file.
ConcSaveOpen(p) ==
    /\ procs[p].pc = "merging"
    /\ procs' = [procs EXCEPT ![p] =
                    [@ EXCEPT !.pc = "writing",
                              !.order = IF \E i \in DOMAIN @ : @[i] = procs[p].currsess
                                        THEN @ ELSE Append(@, procs[p].currsess),
                              !.towrite = update_bookkeping_file(
                                  JournalFile(MergeBase(procs[p].filedata, journal)),
                                  procs[p].filetimes, procs[p].summary,
                                  procs[p].currsess, DefaultAParams).data]]
    /\ journal' = WriteAt(<<>>, 0, <<>>)
    /\ UNCHANGED <<srcfs, subjdirs, disk, now, bk, nruns, steps, gens>>
    /\ UNCHANGED dupvars

\* line 158: the next units of the text leave the buffer of the handle, at
\* the position the handle has reached; with the last one the handle is
\* closed.
ConcSaveDump(p) ==
    /\ procs[p].pc = "writing"
    /\ \E n \in 1..(Len(Text(procs[p].towrite, procs[p].order)) - procs[p].written) :
          /\ procs' = [procs EXCEPT ![p] =
                          [@ EXCEPT !.written = @ + n,
                                    !.pc = IF procs[p].written + n
                                                = Len(Text(procs[p].towrite, procs[p].order))
                                           THEN "done" ELSE "writing"]]
          /\ journal' = WriteAt(journal.text, procs[p].written,
                                SubSeq(Text(procs[p].towrite, procs[p].order),
                                       procs[p].written + 1, procs[p].written + n))
    /\ UNCHANGED <<srcfs, subjdirs, disk, now, bk, nruns, steps, gens>>
    /\ UNCHANGED dupvars

ConcTick ==
    /\ now < MaxClock
    /\ now' = now + 1
    /\ UNCHANGED <<srcfs, subjdirs, disk, journal, bk, nruns, steps, procs, gens>>
    /\ UNCHANGED dupvars

InitConc ==
    /\ DupIdle
    /\ ProcsIdle
    /\ srcfs \in {[p \in SrcPaths |->
                     IF p = SrcPath("s1", "L", 0) THEN SensorFile(0, 1) ELSE NoFile],
                  [p \in SrcPaths |->
                     IF p = SrcPath("s1", "L", 0) THEN SensorFile(0, 1)
                     ELSE IF p = SrcPath("s1", "R", 0) THEN SensorFile(2, 2)
                     ELSE NoFile]}
    /\ subjdirs = {"s1"}
    /\ disk = EmptyDict
    /\ journal = NoJournal
    /\ now = 0
    /\ bk = NoBookKeeper
    /\ nruns = 0
    /\ steps = 0

NextConc ==
    \/ \E p \in Procs : ConcStart(p)
    \/ \E p \in Procs : ConcExists(p)
    \/ \E p \in Procs : ConcCreateOpen(p)
    \/ \E p \in Procs : ConcCreateDump(p)
    \/ \E p \in Procs : ConcLoad(p)
    \/ \E p \in Procs : ConcBookkeep(p)
    \/ \E p \in Procs : ConcSaveRead(p)
    \/ \E p \in Procs : ConcSaveOpen(p)
    \/ \E p \in Procs : ConcSaveDump(p)
    \/ ConcTick

SpecConc == InitConc /\ [][NextConc]_vars

(***************************************************************************)
(* Planning runs: one subject, every arrangement of its source files.      *)
(***************************************************************************)
PlanInstants == 0..(TicksPerDay * (MaxDay + 1) - 1)

PlanContents ==
    {NoFile} \cup {SensorFile(a, b) : a \in PlanInstants, b \in PlanInstants}

InitPlan ==
    /\ DupIdle
    /\ ProcsIdle
    /\ srcfs \in {f \in [SrcPaths -> PlanContents] :
                    \A p \in SrcPaths :
                        /\ f[p].first <= f[p].last
                        /\ p.subj # "s1" => f[p] = NoFile}
    /\ subjdirs = {"s1"}
    /\ disk = EmptyDict
    /\ journal = NoJournal
    /\ now = 0
    /\ bk = NoBookKeeper
    /\ nruns = 0
    /\ steps = 0

PlanRun == nruns = 0 /\ Run(DefaultAParams)

NextPlan == PlanRun

SpecPlan == InitPlan /\ [][NextPlan]_vars

(***************************************************************************)
(* Duplicate resolution of one channel, step by step.                      *)
(***************************************************************************)
Instants == 0..MaxInst

\* A channel list as _get_loc_file_details returns it: [path, start, end].
ChannelLists ==
    UNION {[1..n -> Instants \X Instants] : n \in 1..MaxSegs}

AsEntries(subj, loc, rngs) ==
    [k \in DOMAIN rngs |-> <<SrcPath(subj, loc, k - 1), rngs[k][1], rngs[k][2]>>]

InitDup ==
    /\ \E rngs \in ChannelLists : lv = AsEntries("s1", "L", rngs)
    /\ olinx = [err |-> "unset", val |-> <<>>]
    /\ dlog = <<>>
    /\ dpc = "files"
    /\ RunIdle

\* A direct call of the detector on the ranges of the list.
FindOverlaps ==
    /\ dpc = "files"
    /\ olinx.err = "unset"
    /\ olinx' = find_overlaping_timesegments(
                    [k \in DOMAIN lv |-> SubSeq(lv[k], 2, Len(lv[k]))])
    /\ UNCHANGED <<lv, dlog, dpc>>
    /\ UNCHANGED runvars

UpdateDuplicates ==
    /\ dpc = "files"
    /\ LET r == update_duplicate_channel(lv, dlog)
       IN /\ lv' = r.lv
          /\ dlog' = r.log
          /\ olinx' = [err |-> r.err, val |-> r.olinx]
          /\ dpc' = IF r.err = NoErr THEN "marked" ELSE "raised"
    /\ UNCHANGED runvars

FilterDuplicates ==
    /\ dpc = "marked"
    /\ LET r == filter_out_duplicate_channel(lv, dlog)
       IN /\ lv' = r.lv
          /\ dlog' = r.log
          /\ dpc' = IF r.err = NoErr THEN "filtered" ELSE "raised"
    /\ UNCHANGED olinx
    /\ UNCHANGED runvars

NextDup == FindOverlaps \/ UpdateDuplicates \/ FilterDuplicates

SpecDup == InitDup /\ [][NextDup]_vars

(***************************************************************************)
(* Duplicate resolution of one channel with up to six files, whose ranges  *)
(* the reader returned (first timestamp <= last timestamp).                *)
(***************************************************************************)
LongRanges == {<<0, 0>>, <<0, 1>>, <<1, 1>>}

LongLists == UNION {[1..n -> LongRanges] : n \in 1..MaxLongSegs}

InitLong ==
    /\ \E rngs \in LongLists : lv = AsEntries("s1", "L", rngs)
    /\ olinx = [err |-> "unset", val |-> <<>>]
    /\ dlog = <<>>
    /\ dpc = "files"
    /\ RunIdle

NextLong == FindOverlaps \/ UpdateDuplicates \/ FilterDuplicates

SpecLong == InitLong /\ [][NextLong]_vars

(***************************************************************************)
(* The dashboard's list of analysis parameters  (src/dashsupport.py        *)
(* 141-152, 262-280).  A parameter is the number the file name shows, in   *)
(* hundredths.                                                             *)
(***************************************************************************)
\* lines 268-270: the two dicts agree on the first three parameters.
SameThree(a1, a2) ==
    /\ a1.ulfuncinstsamprate = a2.ulfuncinstsamprate
    /\ a1.avgwindur = a2.avgwindur
    /\ a1.avgwinshift = a2.avgwinshift

\* MergeSummaryWin without the sort of line 274.
MergeSummaryWin_NoSort(entry, aprmdict) ==
    IF InList(aprmdict.summarywin[1], entry.summarywin) THEN entry
    ELSE [entry EXCEPT !.summarywin = entry.summarywin \o aprmdict.summarywin]

\* lines 272-274: the summary window of the dict joins those of the entry.
MergeSummaryWin(entry, aprmdict) ==
    IF InList(aprmdict.summarywin[1], entry.summarywin) THEN entry
    ELSE [entry EXCEPT !.summarywin =
              SortSeq(entry.summarywin \o aprmdict.summarywin, LAMBDA x, y : x < y)]

\* lines 266-280, from the k-th entry of the list on.
RECURSIVE AddFrom(_, _, _)
AddFrom(aprmdict, aprmlist, k) ==
    IF k > Len(aprmlist) THEN Append(aprmlist, aprmdict)
    ELSE IF SameThree(aprmlist[k], aprmdict)
    THEN [aprmlist EXCEPT ![k] = MergeSummaryWin(aprmlist[k], aprmdict)]
    ELSE AddFrom(aprmdict, aprmlist, k + 1)

addto_aanlysis_params_dict_list(aprmdict, aprmlist) == AddFrom(aprmdict, aprmlist, 1)

\* lines 146-150: the dicts the summary file names of the output directory
\* give, one summary window each.
SummaryFileParams ==
    {AParams(sr, w[1], w[2], <<ss>>) :
        sr \in {1000, 2500},
        w \in {<<6000, 3000>>, <<6000, 6000>>},
        ss \in {7, 14, 30}}

InitFold ==
    /\ DupIdle
    /\ RunIdle

\* line 151, for the next summary file of the glob.
AddParams ==
    /\ Len(aprmsadded) < MaxFold
    /\ \E aprm \in SummaryFileParams :
          /\ aprmslist' = addto_aanlysis_params_dict_list(aprm, aprmslist)
          /\ aprmsadded' = Append(aprmsadded, aprm)
    /\ UNCHANGED <<lv, olinx, dlog, dpc, datadir, presult, csvdisk>>
    /\ UNCHANGED <<srcfs, subjdirs, disk, journal, now, bk, nruns, steps, procs, gens>>

NextFold == AddParams

SpecFold == InitFold /\ [][NextFold]_vars

(***************************************************************************)
(* Properties of the dashboard's list of analysis parameters (checked      *)
(* under SpecFold).                                                        *)
(***************************************************************************)
\* The summary windows of the added dicts that have the three parameters of e.
AddedWindows(e) ==
    {aprmsadded[m].summarywin[1] :
        m \in {n \in DOMAIN aprmsadded : SameThree(aprmsadded[n], e)}}

\* C25: no two entries of the list agree on the first three parameters, every
\* added dict has an entry with its three parameters, and the summary windows
\* of an entry are in ascending order without duplicates and are the windows
\* of the added dicts with the entry's three parameters.
C25_ListHoldsOneEntryPerParameters ==
    /\ \A i \in DOMAIN aprmslist : \A j \in DOMAIN aprmslist :
           SameThree(aprmslist[i], aprmslist[j]) => i = j
    /\ \A m \in DOMAIN aprmsadded :
           \E i \in DOMAIN aprmslist : SameThree(aprmslist[i], aprmsadded[m])
    /\ \A i \in DOMAIN aprmslist :
           /\ \A k1 \in DOMAIN aprmslist[i].summarywin :
                  \A k2 \in DOMAIN aprmslist[i].summarywin :
                      k1 < k2 => aprmslist[i].summarywin[k1] < aprmslist[i].summarywin[k2]
           /\ {aprmslist[i].summarywin[k] : k \in DOMAIN aprmslist[i].summarywin}
                  = AddedWindows(aprmslist[i])

\* Dicts with the same three parameters were added with windows 14, 7, 14:
\* the list has the one entry with windows 7, 14.
C25_Witness ==
    /\ Len(aprmsadded) = 3
    /\ aprmsadded[1].summarywin = <<14>>
    /\ aprmsadded[2].summarywin = <<7>>
    /\ aprmsadded[3].summarywin = <<14>>
    /\ Len(aprmslist) = 1
    /\ aprmslist[1].summarywin = <<7, 14>>

(***************************************************************************)
(* Properties of the overlap detector and of duplicate resolution          *)
(* (checked under SpecDup).                                                *)
(***************************************************************************)
\* The ranges of the channel list, as the detector receives them.
Tsegs == [k \in DOMAIN lv |-> <<lv[k][2], lv[k][3]>>]

InSeq(x, s) == \E m \in DOMAIN s : s[m] = x

Increasing(s) == \A m \in DOMAIN s : \A m2 \in DOMAIN s : m < m2 => s[m] < s[m2]

\* Two ranges intersect iff an endpoint of one of them lies within the closed
\* interval of the other.
RangesIntersect(a, b) == OverlapTest(a, b) \/ OverlapTest(b, a)

SwapAt(s, i, j) == [s EXCEPT ![i + 1] = s[j + 1], ![j + 1] = s[i + 1]]

\* C6: for well-formed ranges the detector returns, for each index i, exactly
\* the later indices j whose range intersects range i, in increasing order.
C6_ExactlyTheIntersectingPairs ==
    olinx.err = NoErr =>
        \A i \in 0..(Len(lv) - 1) :
            /\ Increasing(olinx.val[i + 1])
            /\ \A j \in 0..(Len(lv) - 1) :
                   InSeq(j, olinx.val[i + 1])
                       <=> (j > i /\ RangesIntersect(Tsegs[i + 1], Tsegs[j + 1]))

\* C7: if the detector reports that i overlaps j (i < j), it reports the pair
\* as well when the elements at positions i and j are exchanged.
C7_SymmetricUnderSwap ==
    olinx.err = NoErr =>
        \A i \in 0..(Len(lv) - 1) : \A j \in (i + 1)..(Len(lv) - 1) :
            InSeq(j, olinx.val[i + 1]) =>
                InSeq(j, find_overlaping_timesegments(SwapAt(Tsegs, i, j)).val[i + 1])

\* Some range of the list has its start after its end.
IllFormed == \E k \in DOMAIN lv : lv[k][2] > lv[k][3]

\* C22: the detector raises an error, and returns no overlap lists, exactly
\* when some range it is given has start > end; duplicate marking on such a
\* list raises as well and adds no overlap list to any file.
C22_IllFormedRangeRaises ==
    /\ olinx.err # "unset" =>
           /\ IllFormed <=> olinx.err = "AssertionError"
           /\ IllFormed => olinx.val = <<>>
    /\ IllFormed => dpc \in {"files", "raised"}
    /\ (IllFormed /\ dpc = "raised") => \A k \in DOMAIN lv : Len(lv[k]) = 3

\* The detector has raised on a list whose well-formed ranges intersect and
\* whose last range is ill-formed.
C22_Witness ==
    /\ olinx.err = "AssertionError"
    /\ dpc = "raised"
    /\ Len(lv) = 3
    /\ RangesIntersect(Tsegs[1], Tsegs[2])
    /\ lv[3][2] > lv[3][3]

Keep(k) == lv[k + 1][5]

Listed(i, k) == InSeq(k, lv[i + 1][4])

\* Scenario A up to the order of its six instants: the second range strictly
\* inside the first, the third after both.
ScenarioA ==
    /\ Len(lv) = 3
    /\ lv[1][2] < lv[2][2] /\ lv[2][2] <= lv[2][3] /\ lv[2][3] < lv[1][3]
    /\ lv[1][3] < lv[3][2] /\ lv[3][2] <= lv[3][3]

\* C8: duplicate resolution decides by discovery order: the first file is
\* kept, a file no earlier file reports as overlapping is kept, and a file is
\* discarded exactly when an earlier file that is itself kept lists it; in
\* scenario A the only pair is (0,1), file 1 is discarded, files 0 and 2 kept.
C8_FirstInDiscoveryOrderWins ==
    dpc = "filtered" =>
        /\ Keep(0)
        /\ \A k \in 0..(Len(lv) - 1) :
               /\ (~ \E i \in 0..(Len(lv) - 1) : Listed(i, k)) => Keep(k)
               /\ (~ Keep(k)) <=> (\E i \in 0..(k - 1) : Keep(i) /\ Listed(i, k))
        /\ ScenarioA =>
               /\ olinx.val = << <<1>>, <<>>, <<>> >>
               /\ Keep(0) /\ ~ Keep(1) /\ Keep(2)

\* Scenario A has been resolved: file 1 is the only file discarded.
C8_Witness ==
    /\ dpc = "filtered"
    /\ ScenarioA
    /\ ~ Keep(1)
    /\ Keep(2)

\* The warnings of the log, in the order they were appended.
Warnings == SelectSeq(dlog, LAMBDA e : e.level = "WARNING")

\* The files of the list that duplicate resolution has discarded.
Discarded == {k \in 0..(Len(lv) - 1) : ~ Keep(k)}

\* The warning shows the path of file k of the list.
Names(w, k) ==
    /\ Len(w.names) = 1
    /\ w.names[1].kind = "path"
    /\ w.names[1].val = lv[k + 1][1]

\* C18: when duplicate resolution has discarded files, the log holds one
\* warning per discarded file and each warning names the path of a discarded
\* file.
C18_WarningNamesDiscardedFile ==
    dpc = "filtered" =>
        /\ \A k \in Discarded : \E m \in DOMAIN Warnings : Names(Warnings[m], k)
        /\ \A m \in DOMAIN Warnings : \E k \in Discarded : Names(Warnings[m], k)

\* Three files in discovery order A, B, C whose ranges form a chain: A
\* intersects B, B intersects C, A does not intersect C.
Chain ==
    /\ Len(lv) = 3
    /\ RangesIntersect(Tsegs[1], Tsegs[2])
    /\ RangesIntersect(Tsegs[2], Tsegs[3])
    /\ ~ RangesIntersect(Tsegs[1], Tsegs[3])

\* C19: a discarded file discards no other file: a file is discarded only if
\* a kept file lists it, and in a chain A, B, C (A overlaps B, B overlaps C, A
\* does not overlap C) A is kept, B is discarded and C is kept.
C19_DiscardedFileDiscardsNothing ==
    dpc = "filtered" =>
        /\ \A k \in Discarded : \E i \in 0..(k - 1) : Keep(i) /\ Listed(i, k)
        /\ Chain => Keep(0) /\ ~ Keep(1) /\ Keep(2)

\* C27: after duplicate resolution no two kept files of the channel have
\* ranges that share an instant, in whatever order the files were listed.
C27_KeptFilesAreDisjoint ==
    dpc = "filtered" =>
        \A i \in 0..(Len(lv) - 1) : \A j \in 0..(Len(lv) - 1) :
            (i < j /\ Keep(i) /\ Keep(j)) => ~ RangesIntersect(Tsegs[i + 1], Tsegs[j + 1])

(***************************************************************************)
(* Properties of duplicate resolution on long lists (checked under         *)
(* SpecLong).                                                              *)
(***************************************************************************)
\* The error entries of the log, in the order they were appended.
Errors == SelectSeq(dlog, LAMBDA e : e.level = "ERROR")

\* The files the detector lists later partners for.
WithPartners == {i \in 0..(Len(lv) - 1) : Len(lv[i + 1][4]) > 0}

\* C24: duplicate marking and resolution of well-formed ranges never raise,
\* and the log holds exactly one error entry for each file that has later
\* overlap partners, naming the file and all of these partners.
C24_OverlapsAreLoggedNotRaised ==
    (dpc \in {"marked", "filtered", "raised"} /\ ~ IllFormed) =>
        /\ dpc # "raised"
        /\ Len(Errors) = Cardinality(WithPartners)
        /\ \A i \in WithPartners :
               \E m \in DOMAIN Errors :
                   Errors[m].names = OverlapNames(lv, i, lv[i + 1][4])

\* C28: duplicate resolution of any list of well-formed ranges completes
\* without raising, whatever the length of the list and the index of a
\* discarded file, and leaves every file with one keep/discard flag.
C28_ResolutionCompletesOnAnyList ==
    ~ IllFormed =>
        /\ olinx.err \in {"unset", NoErr}
        /\ dpc \in {"files", "marked", "filtered"}
        /\ dpc = "filtered" => \A k \in DOMAIN lv : Len(lv[k]) = 5

(***************************************************************************)
(* Properties of the plan of a subject (checked under SpecPlan).           *)
(***************************************************************************)
\* The entries of a subject's files in the latest run, all channels.
RunEntries(subj) ==
    UNION {{bk.locfiles[subj][l][k] : k \in DOMAIN bk.locfiles[subj][l]} : l \in LocSet}

KeptEntries(subj) == {el \in RunEntries(subj) : el[5]}

DiscardedEntries(subj) == {el \in RunEntries(subj) : ~ el[5]}

PlanDays(subj) == DOMAIN bk.summary[subj].days

Planned(subj) == bk.status = "ok" /\ subj \in DOMAIN bk.summary

\* C9: a file that duplicate resolution discarded does not contribute to the
\* plan: every planned day lies within the dates of the kept files alone, and
\* no day lists the file among its sources, for any channel.
C9_DiscardedFilesContributeNothing ==
    \A subj \in {"s1", "s2"} : Planned(subj) =>
        \A d \in PlanDays(subj) :
            /\ \E el \in KeptEntries(subj) : DateOf(el[2]) <= d
            /\ \E el \in KeptEntries(subj) : d <= DateOf(el[3])
            /\ \A el \in DiscardedEntries(subj) : \A l \in LocSet :
                   ~ InSeq(el[1], bk.summary[subj].days[d].src[l])

\* A discarded file reaches a day on which no kept file has data: the plan
\* has no such day, and the days it shares with kept files do not list it.
C9_Witness ==
    /\ Planned("s1")
    /\ \E el \in DiscardedEntries("s1") :
           /\ DateOf(el[3]) \notin PlanDays("s1")
           /\ DateOf(el[2]) \in PlanDays("s1")

\* C10: the day keys of a subject's plan are exactly the calendar days from
\* the date of the earliest start to the date of the latest end over the kept
\* files of all channels, both included.
C10_DaysSpanKeptFiles ==
    \A subj \in {"s1", "s2"} : Planned(subj) =>
        PlanDays(subj) =
            {d \in 0..(MaxDay + 1) :
                /\ \E el \in KeptEntries(subj) : DateOf(el[2]) <= d
                /\ \E el \in KeptEntries(subj) : d <= DateOf(el[3])}

\* Kept files on day 0 and on day 2 only, in two channels: the plan has the
\* days 0, 1 and 2, the middle one without any source.
C10_Witness ==
    /\ Planned("s1")
    /\ PlanDays("s1") = {0, 1, 2}
    /\ \A el \in KeptEntries("s1") : DateOf(el[2]) = DateOf(el[3]) /\ DateOf(el[2]) # 1
    /\ \E e1 \in KeptEntries("s1") : \E e2 \in KeptEntries("s1") : e1[1].loc # e2[1].loc

\* The positions in a channel's file list of the kept files that hold data of
\* day d.
Touching(chan, d) ==
    {k \in DOMAIN chan : chan[k][5] /\ DateOf(chan[k][2]) <= d /\ d <= DateOf(chan[k][3])}

\* C11: for every planned day and every channel, the sources of the day are
\* exactly the kept files of the channel with date(start) <= day <= date(end),
\* each once and in discovery order; a kept file that does not touch the day
\* is not listed.
C11_DaySourcesAreTouchingKeptFiles ==
    \A subj \in {"s1", "s2"} : Planned(subj) =>
        \A d \in PlanDays(subj) : \A l \in LocSet :
            LET chan == bk.locfiles[subj][l]
                src == bk.summary[subj].days[d].src[l]
            IN /\ Len(src) = Cardinality(Touching(chan, d))
               /\ \A k \in Touching(chan, d) :
                      src[Cardinality({j \in Touching(chan, d) : j <= k})] = chan[k][1]

\* A day lists two kept files of one channel in discovery order, and a kept
\* file of the other channel, which starts later, is not listed for it.
C11_Witness ==
    /\ Planned("s1")
    /\ 0 \in PlanDays("s1")
    /\ bk.summary["s1"].days[0].src["L"] = <<SrcPath("s1", "L", 0), SrcPath("s1", "L", 1)>>
    /\ bk.summary["s1"].days[0].src["R"] = <<>>
    /\ \E el \in KeptEntries("s1") : el[1] = SrcPath("s1", "R", 0) /\ DateOf(el[2]) = 1

(***************************************************************************)
(* Properties of the journal across runs (checked under Spec).             *)
(***************************************************************************)
\* The file-time cache and the session history the journal file holds.
Cache(jf) ==
    IF jf.exists /\ jf.valid /\ "filetimes" \in DOMAIN jf.data
    THEN jf.data["filetimes"] ELSE EmptyDict

History(jf) ==
    IF jf.exists /\ jf.valid /\ "summary" \in DOMAIN jf.data
    THEN jf.data["summary"] ELSE EmptyDict

\* The step is a run of the tracker; the run completed.
RunStep == nruns' = nruns + 1

CompletedRunStep == RunStep /\ bk'.status = "ok"

\* Number of reader invocations for path p in a run.
ReaderCalls(b, p) == Cardinality({k \in DOMAIN b.calls : b.calls[k] = p})

\* The entries of the files a run scanned, all subjects and channels.
ScannedEntries(b) ==
    UNION {UNION {{b.locfiles[subj][l][k] : k \in DOMAIN b.locfiles[subj][l]} :
                     l \in LocSet} : subj \in DOMAIN b.locfiles}

ScannedPaths(b) == {el[1] : el \in ScannedEntries(b)}

\* C2: a run never invokes the reader for a path present in the cache loaded
\* from the journal; of two successive completed runs that both scan a file,
\* the second does not read it and uses the cached range, and the two
\* together read it once (not at all if it was cached before the first).
C2_CacheHitsBypassReader ==
    [][RunStep =>
          /\ \A p \in DOMAIN Cache(journal) : ReaderCalls(bk', p) = 0
          /\ (bk.status = "ok" /\ bk'.status = "ok") =>
                 \A el \in ScannedEntries(bk') : el[1] \in ScannedPaths(bk) =>
                     /\ ReaderCalls(bk', el[1]) = 0
                     /\ ReaderCalls(bk, el[1]) = IF el[1] \in DOMAIN bk.ft0 THEN 0 ELSE 1
                     /\ <<el[2], el[3]>> = Cache(journal)[el[1]]]_vars

\* The second of two completed runs has scanned a file the first one read,
\* without a reader call.
C2_Witness ==
    /\ nruns = 2
    /\ bk.status = "ok"
    /\ ScannedPaths(bk) # {}
    /\ bk.calls = <<>>
    /\ \A p \in ScannedPaths(bk) : p \in DOMAIN Cache(journal)

\* C3: every completed run adds exactly one session record to the journal
\* and leaves every earlier session record present and unchanged.
C3_SessionHistoryAppendOnly ==
    [][CompletedRunStep =>
          /\ \A k \in DOMAIN History(journal) :
                 /\ k \in DOMAIN History(journal')
                 /\ History(journal')[k] = History(journal)[k]
          /\ Cardinality(DOMAIN History(journal')) =
                 Cardinality(DOMAIN History(journal)) + 1]_vars

\* C4: the file-time cache in the journal only grows: an entry present before
\* a step is present with the same value after it.
C4_CacheOnlyGrows ==
    [][\A p \in DOMAIN Cache(journal) :
          /\ p \in DOMAIN Cache(journal')
          /\ Cache(journal')[p] = Cache(journal)[p]]_vars

\* A run has completed over a subject directory from which a cached file had
\* been deleted, and the journal still holds the entry of that file.
C4_Witness ==
    /\ bk.status = "ok"
    /\ \E p \in DOMAIN Cache(journal) :
           /\ ~ srcfs[p].present
           /\ p.subj \in DOMAIN bk.locfiles
           /\ p \notin ScannedPaths(bk)
           /\ Cache(journal)[p] = <<0, 1>>

\* The source files of a subject directory.
FilesOf(subj) == {p \in SrcPaths : p.subj = subj /\ srcfs[p].present}

\* The subject has a source file and all its source files are readable.
Healthy(subj) == FilesOf(subj) # {} /\ \A p \in FilesOf(subj) : srcfs[p].ok

\* C15: a failure while processing one subject (an unreadable source file, a
\* subject directory without any kept source file) does not abort the run:
\* the run completes, the failure is in its log, every subject without a
\* failure is planned, and the journal holds the session record of the run.
C15_SubjectFailureDoesNotAbortRun ==
    [][RunStep =>
          /\ bk'.status = "ok"
          /\ \A subj \in subjdirs : Healthy(subj) => subj \in DOMAIN bk'.summary
          /\ (\E subj \in subjdirs : ~ Healthy(subj)) => bk'.log # <<>>
          /\ bk'.currsess \in DOMAIN History(journal')]_vars

\* C30: a run that raises leaves the cache and the history of the journal
\* file exactly as it found them (and the file itself, when there was one):
\* no range the run read is in the journal; a run that completes leaves in
\* the cache what it loaded and what it read.
C30_AbortedRunPersistsNothing ==
    [][RunStep =>
          /\ bk'.status = "raised" =>
                 /\ Cache(journal') = Cache(journal)
                 /\ History(journal') = History(journal)
                 /\ journal.exists => journal' = journal
                 /\ \A k \in DOMAIN bk'.calls : bk'.calls[k] \notin DOMAIN Cache(journal')
          /\ bk'.status = "ok" => Cache(journal') = bk'.filetimes]_vars

\* A run has read the range of a file and has then raised, over a journal
\* that held the ranges of an earlier run: the range is not in the journal.
C30_Witness ==
    /\ bk.status = "raised"
    /\ Cache(journal) # EmptyDict
    /\ History(journal) # EmptyDict
    /\ \E path \in DOMAIN bk.filetimes : path \notin DOMAIN Cache(journal)

(***************************************************************************)
(* Properties of the staleness flags (checked under SpecDisk).             *)
(***************************************************************************)
\* C1: in every completed run, each expected artifact (the raw, ulfuncinst
\* and ulfuncavrg file of every day and every summary file) is flagged
\* needsBuild exactly when no file exists at its path at the time of the run,
\* whatever the content of an existing file.
C1_NeedsBuildIffAbsent ==
    [][CompletedRunStep =>
          \A subj \in DOMAIN bk'.summary :
              \A item \in PlanItems(bk'.summary[subj]) :
                  item[2] <=> (item[1] \notin DOMAIN disk)]_vars

\* The second run has cleared the flag of an artifact at whose path an empty
\* file was created after the first run, and kept the flags of the others.
C1_Witness ==
    /\ nruns = 2
    /\ bk.status = "ok"
    /\ \E item \in PlanItems(bk.summary["s1"]) :
           /\ ~ item[2]
           /\ item[1] \in DOMAIN disk
           /\ disk[item[1]] = "empty"
    /\ \E item \in PlanItems(bk.summary["s1"]) : item[2]

\* The artifact paths a run flagged needsBuild, all subjects.
Flagged(b) ==
    UNION {{item[1] : item \in {it \in PlanItems(b.summary[subj]) : it[2]}} :
              subj \in DOMAIN b.summary}

\* C12: a run of the tracker creates, deletes and changes no artifact file (nor
\* source file), and a completed run that finds the data directory as the
\* previous completed run found it flags the same artifacts needsBuild.
C12_RerunFlagsTheSame ==
    [][RunStep =>
          /\ disk' = disk
          /\ srcfs' = srcfs
          /\ (bk.status = "ok" /\ bk'.status = "ok" /\ bk.seen = Seen) =>
                 Flagged(bk') = Flagged(bk)]_vars

\* Three runs and one file creation: two successive runs found the same
\* directory, and the latest flagged some artifacts and not others.
C12_Witness ==
    /\ nruns = 3
    /\ steps = 4
    /\ bk.status = "ok"
    /\ bk.seen = Seen
    /\ Flagged(bk) # {}
    /\ \E path \in DOMAIN disk : path \notin Flagged(bk)

(***************************************************************************)
(* Properties of the artifact paths under different analysis parameters    *)
(* (checked under SpecKeys).                                               *)
(***************************************************************************)
SeqSet(sq) == {sq[k] : k \in DOMAIN sq}

\* Two parameter sets are different AnalysisKeys.
KeysDiffer(a1, a2) ==
    \/ a1.ulfuncinstsamprate # a2.ulfuncinstsamprate
    \/ a1.avgwindur # a2.avgwindur
    \/ a1.avgwinshift # a2.avgwinshift
    \/ SeqSet(a1.summarywin) # SeqSet(a2.summarywin)

\* The artifact paths a session record plans.
SessionPaths(rec) ==
    UNION {PlanPaths(rec.bkdetails[subj]) : subj \in DOMAIN rec.bkdetails}

\* C5 as claimed: the paths planned under two different AnalysisKeys for the
\* same kept files have no path in common.
C5_DifferentKeysDisjointPaths ==
    \A k1 \in DOMAIN History(journal) : \A k2 \in DOMAIN History(journal) :
        KeysDiffer(History(journal)[k1].analysisparams,
                   History(journal)[k2].analysisparams) =>
            SessionPaths(History(journal)[k1]) \cap SessionPaths(History(journal)[k2]) = {}

SameRate(a1, a2) == Fmt2f(a1.ulfuncinstsamprate) = Fmt2f(a2.ulfuncinstsamprate)

SameWindow(a1, a2) ==
    /\ Fmt2f(a1.avgwindur) = Fmt2f(a2.avgwindur)
    /\ Fmt2f(a1.avgwinshift) = Fmt2f(a2.avgwinshift)

\* A path both parameter sets may plan: a raw path; a ulfuncinst path when
\* the rates agree to two decimals; a ulfuncavrg path when the rates and the
\* windows agree to two decimals; a summary path when they agree and the
\* summary window of the path is listed by both.
MayShare(path, a1, a2) ==
    \/ path.kind = "raw"
    \/ path.kind = "ulfuncinst" /\ SameRate(a1, a2)
    \/ path.kind = "ulfuncavrg" /\ SameRate(a1, a2) /\ SameWindow(a1, a2)
    \/ /\ path.kind = "summary" /\ SameRate(a1, a2) /\ SameWindow(a1, a2)
       /\ path.summ \in SeqSet(a1.summarywin) \cap SeqSet(a2.summarywin)

\* C5 as amended: for the same kept files, the raw paths are the same under
\* every AnalysisKey, and any other path planned under both of two keys is a
\* path the two keys may share: none if the rates differ to two decimals, the
\* ulfuncinst paths alone if only the windows differ to two decimals, and
\* otherwise also the ulfuncavrg paths and the summary paths of the summary
\* windows both list.
C5_SharedPathsOnlyWhereFragmentsAgree ==
    \A k1 \in DOMAIN History(journal) : \A k2 \in DOMAIN History(journal) :
        LET r1 == History(journal)[k1]
            r2 == History(journal)[k2]
        IN /\ {q \in SessionPaths(r1) : q.kind = "raw"}
                  = {q \in SessionPaths(r2) : q.kind = "raw"}
           /\ \A path \in SessionPaths(r1) :
                  path \in SessionPaths(r2)
                      <=> MayShare(path, r1.analysisparams, r2.analysisparams)

\* The journal holds two sessions whose rates differ to two decimals: they
\* share the raw path and nothing else.
C5_Witness ==
    \E k1 \in DOMAIN History(journal) : \E k2 \in DOMAIN History(journal) :
        LET r1 == History(journal)[k1]
            r2 == History(journal)[k2]
        IN /\ ~ SameRate(r1.analysisparams, r2.analysisparams)
           /\ SessionPaths(r1) \cap SessionPaths(r2) # {}
           /\ \A q \in SessionPaths(r1) \cap SessionPaths(r2) : q.kind = "raw"

\* The plan of subject s1 in the session record of key k.
PlanOf(k) == History(journal)[k].bkdetails["s1"]

KeyOf(k) == History(journal)[k].analysisparams

\* C23: for the same subject and day, the raw path is the same under every
\* two parameter sets, the ulfuncinst paths are equal exactly when the rate
\* fragments are, and the ulfuncavrg paths are equal exactly when the rate
\* fragments and the window fragments are; the summary windows play no part.
C23_DayPathsDependOnTheirFragments ==
    \A k1 \in DOMAIN History(journal) : \A k2 \in DOMAIN History(journal) :
        /\ DOMAIN PlanOf(k1).days = DOMAIN PlanOf(k2).days
        /\ \A d \in DOMAIN PlanOf(k1).days :
               /\ PlanOf(k1).days[d].raw[1] = PlanOf(k2).days[d].raw[1]
               /\ PlanOf(k1).days[d].ulfuncinst[1] = PlanOf(k2).days[d].ulfuncinst[1]
                      <=> SameRate(KeyOf(k1), KeyOf(k2))
               /\ PlanOf(k1).days[d].ulfuncavrg[1] = PlanOf(k2).days[d].ulfuncavrg[1]
                      <=> (SameRate(KeyOf(k1), KeyOf(k2)) /\ SameWindow(KeyOf(k1), KeyOf(k2)))

\* The journal holds two sessions whose rates differ and give the same rate
\* fragment, whose windows and summary windows differ: on day 0 they plan the
\* same raw and ulfuncinst paths and different ulfuncavrg paths.
C23_Witness ==
    \E k1 \in DOMAIN History(journal) : \E k2 \in DOMAIN History(journal) :
        /\ KeyOf(k1).ulfuncinstsamprate # KeyOf(k2).ulfuncinstsamprate
        /\ SameRate(KeyOf(k1), KeyOf(k2))
        /\ ~ SameWindow(KeyOf(k1), KeyOf(k2))
        /\ KeyOf(k1).summarywin # KeyOf(k2).summarywin
        /\ 0 \in DOMAIN PlanOf(k1).days
        /\ PlanOf(k1).days[0].ulfuncinst[1] = PlanOf(k2).days[0].ulfuncinst[1]
        /\ PlanOf(k1).days[0].ulfuncavrg[1] # PlanOf(k2).days[0].ulfuncavrg[1]

(***************************************************************************)
(* Properties of the journal file a run finds and leaves (checked under     *)
(* SpecJournal).                                                           *)
(***************************************************************************)
JournalKeys == {"filetimes", "summary"}

\* The journal file is missing, or parses as an object that lacks the cache
\* key or the history key.
Incomplete(jf) == ~ jf.exists \/ (jf.valid /\ ~ (JournalKeys \subseteq DOMAIN jf.data))

\* The step is a run that was not killed.
UnkilledRunStep == RunStep /\ bk'.status # "killed"

\* C13: a run that finds no journal file, or one that lacks the cache key or
\* the history key, completes: it loads what the file holds of the cache
\* (nothing when there was no file), treats the missing part as empty, and
\* leaves a journal with both keys whose history holds the session of the run
\* (and that session only when there was no file).
C13_IncompleteJournalTolerated ==
    [][(UnkilledRunStep /\ Incomplete(journal)) =>
          /\ bk'.status = "ok"
          /\ bk'.ft0 = Cache(journal)
          /\ journal'.exists /\ journal'.valid
          /\ JournalKeys \subseteq DOMAIN journal'.data
          /\ DOMAIN History(journal') = DOMAIN History(journal) \cup {bk'.currsess}
          /\ (~ journal.exists) =>
                 /\ bk'.ft0 = EmptyDict
                 /\ DOMAIN History(journal') = {bk'.currsess}]_vars

\* A run has completed on the journal that had the cache key only: it read no
\* file, and the history holds its session and no other.
C13_Witness ==
    /\ nruns = 1
    /\ bk.status = "ok"
    /\ bk.ft0 # EmptyDict
    /\ bk.calls = <<>>
    /\ ScannedPaths(bk) # {}
    /\ DOMAIN History(journal) = {bk.currsess}

\* C21: a run that finds a journal file that does not parse raises the parse
\* error: it reads no source file, scans no subject, plans nothing, and
\* leaves the journal file as it found it.
C21_UnparsableJournalAbortsRun ==
    [][(UnkilledRunStep /\ journal.exists /\ ~ journal.valid) =>
          /\ bk'.status = "raised"
          /\ bk'.err = "JSONDecodeError"
          /\ bk'.calls = <<>>
          /\ bk'.locfiles = EmptyDict
          /\ bk'.summary = EmptyDict
          /\ bk'.log = <<>>
          /\ journal' = journal]_vars

\* A run has raised on a journal file that does not parse, in a directory
\* with a subject and a source file to scan.
C21_Witness ==
    /\ nruns >= 1
    /\ bk.status = "raised"
    /\ bk.err = "JSONDecodeError"
    /\ journal = TruncatedJournal
    /\ bk.seen.dirs = {"s1"}
    /\ bk.seen.fs[SrcPath("s1", "L", 0)] # NoFile

\* The step is a run that was killed.
KilledRunStep == bk'.status = "killed" /\ steps' = steps + 1

\* C14: a run killed at any point leaves the journal file with the complete
\* content it had before the run or the complete content the run would have
\* written, so that it still parses.
C14_KilledRunLeavesJournalWhole ==
    [][KilledRunStep =>
          /\ \/ journal' = journal
             \/ journal' = BookKeeperInit(subjdirs, srcfs, disk, journal, now,
                                          DefaultAParams).journal
          /\ (journal.exists /\ journal.valid) => (journal'.exists /\ journal'.valid)]_vars

(***************************************************************************)
(* Properties of concurrent runs (checked under SpecConc).                 *)
(***************************************************************************)
\* The session history in the object an invocation read at lines 144-145.
ReadHistory(p) ==
    IF "summary" \in DOMAIN procs[p].filedata THEN procs[p].filedata["summary"]
    ELSE EmptyDict

\* Both invocations have completed, under different session keys.
BothDone ==
    /\ \A p \in Procs : procs[p].pc = "done"
    /\ procs[1].currsess # procs[2].currsess

\* Neither invocation found the session of the other in the journal it read:
\* the other had not written it yet, or a journal created anew (lines 49-50)
\* had replaced it.
Overlapped ==
    /\ procs[2].currsess \notin DOMAIN ReadHistory(1)
    /\ procs[1].currsess \notin DOMAIN ReadHistory(2)

\* The journal lacks the session record of one of the two invocations.
LostUpdate == \E p \in Procs : procs[p].currsess \notin DOMAIN History(journal)

\* C16: nothing serialises the read-whole-file / write-whole-file sequences of
\* two concurrent invocations: when both have completed, the journal lacks the
\* session record of one of them exactly when neither had found the session
\* of the other in the file it read; such an interleaving exists.
C16_OverlappedSavesLoseAnUpdate == BothDone => (LostUpdate <=> Overlapped)

\* Both invocations have completed and the journal holds one session only.
C16_Witness ==
    /\ BothDone
    /\ journal.valid
    /\ Cardinality(DOMAIN History(journal)) = 1
    /\ LostUpdate

(***************************************************************************)
(* Properties of processalldata (checked under SpecProc).                  *)
(***************************************************************************)
\* The paths for which the latest processalldata called a generation.
GenPaths(g) == {g[k].path : k \in DOMAIN g}

\* C17: processalldata calls a generation for an artifact (raw, ulfuncinst,
\* ulfuncavrg or summary file) only if the tracker flagged it needsBuild, and
\* an artifact file that existed before the run is neither regenerated nor
\* changed, nor is the .csv copy of one; a .csv copy is written only with
\* its artifact.
C17_OnlyFlaggedArtifactsGenerated ==
    [][RunStep =>
          /\ GenPaths(gens') \subseteq Flagged(bk')
          /\ \A path \in DOMAIN disk :
                 /\ path \notin GenPaths(gens')
                 /\ path \in DOMAIN disk'
                 /\ disk'[path] = disk[path]
                 /\ path \in DOMAIN csvdisk =>
                        path \in DOMAIN csvdisk' /\ csvdisk'[path] = csvdisk[path]
          /\ \A path \in DOMAIN csvdisk' :
                 \/ path \in DOMAIN csvdisk /\ csvdisk'[path] = csvdisk[path]
                 \/ \E k \in DOMAIN gens' :
                        gens'[k].path = path /\ gens'[k].outcome = "written"]_vars

\* A run found some artifacts of its plan on disk and others missing, and
\* has written one of the missing ones.
C17_Witness ==
    /\ bk.status = "ok"
    /\ "s1" \in DOMAIN bk.summary
    /\ \E path \in DOMAIN bk.seen.disk :
           path \in PlanPaths(bk.summary["s1"]) /\ path \in DOMAIN csvdisk
    /\ \E k \in DOMAIN gens :
           /\ gens[k].outcome = "written"
           /\ gens[k].path \notin DOMAIN bk.seen.disk

\* The days on which the kept files of a subject's latest scan have data.
KeptDays(b, subj) ==
    LET kept == UNION {{b.locfiles[subj][l][k] :
                           k \in {m \in DOMAIN b.locfiles[subj][l] :
                                     b.locfiles[subj][l][m][5]}} : l \in LocSet}
    IN {d \in 0..(MaxDay + 1) :
           /\ \E el \in kept : DateOf(el[2]) <= d
           /\ \E el \in kept : d <= DateOf(el[3])}

\* C20: a completed run holds, for every subject directory, the full plan
\* whether or not anything needs building: every day of the kept files with
\* its three artifact paths, flags and sources, and the summary entry with a
\* path and flag per summary kind and window; the subject's plan is in the
\* session record the run writes.
C20_PlanIsAlwaysFull ==
    [][CompletedRunStep =>
          \A subj \in subjdirs :
              /\ subj \in DOMAIN bk'.summary
              /\ DOMAIN bk'.summary[subj].days = KeptDays(bk', subj)
              /\ KeptDays(bk', subj) # {}
              /\ \A d \in DOMAIN bk'.summary[subj].days :
                     /\ DOMAIN bk'.summary[subj].days[d] =
                            {"raw", "ulfuncinst", "ulfuncavrg", "src"}
                     /\ DOMAIN bk'.summary[subj].days[d].src = LocSet
              /\ DOMAIN bk'.summary[subj].summary = SummaryKeys
              /\ \A key \in SummaryKeys :
                     Len(bk'.summary[subj].summary[key]) = Len(bk'.aparams.summarywin)
              /\ subj \in DOMAIN History(journal')[bk'.currsess].bkdetails
              /\ History(journal')[bk'.currsess].bkdetails[subj] = bk'.summary[subj]]_vars

\* The place of a kind of artifact in the chain raw, ulfuncinst, ulfuncavrg,
\* summary.
Rank(kind) ==
    CASE kind = "raw" -> 1
      [] kind = "ulfuncinst" -> 2
      [] kind = "ulfuncavrg" -> 3
      [] OTHER -> 4

\* The generation of the flagged artifact was called before the k-th call.
CalledBefore(item, k) ==
    item[2] => \E k0 \in 1..(k - 1) : gens[k0].path = item[1]

\* The days of the plan the k-th generation call reads artifacts of: the day
\* of a day file, every day for a summary file.
InputDays(k) ==
    IF gens[k].kind = "summary" THEN DOMAIN bk.summary[gens[k].subj].days
    ELSE {gens[k].path.day}

\* C26: the generation calls of a subject are in the order of the chain: every
\* raw call comes before every ulfuncinst call, these before every ulfuncavrg
\* call, and these before every summary call; and when a generation is
\* called, the generation of each flagged artifact it reads has been called
\* before.
C26_GenerationsInDependencyOrder ==
    /\ \A k1 \in DOMAIN gens : \A k2 \in DOMAIN gens :
           (k1 < k2 /\ gens[k1].subj = gens[k2].subj)
               => Rank(gens[k1].kind) <= Rank(gens[k2].kind)
    /\ \A k \in DOMAIN gens : \A d \in InputDays(k) :
           /\ Rank(gens[k].kind) \in {2, 3} =>
                  CalledBefore(bk.summary[gens[k].subj].days[d].raw, k)
           /\ Rank(gens[k].kind) = 3 =>
                  CalledBefore(bk.summary[gens[k].subj].days[d].ulfuncinst, k)
           /\ Rank(gens[k].kind) = 4 =>
                  CalledBefore(bk.summary[gens[k].subj].days[d].ulfuncavrg, k)

\* A processalldata has generated, for subject s1, files of all four kinds
\* over two days, and has gone on to subject s2 or stopped there.
C26_Witness ==
    /\ \A kind \in {"raw", "ulfuncinst", "ulfuncavrg", "summary"} :
           \E k \in DOMAIN gens :
               /\ gens[k].subj = "s1"
               /\ gens[k].kind = kind
               /\ gens[k].outcome = "written"
    /\ \E k \in DOMAIN gens : gens[k].kind = "raw" /\ gens[k].path.day = 1
    /\ \E k \in DOMAIN gens : gens[k].kind = "ulfuncinst" /\ gens[k].path.day = 0

\* The generation calls made for the artifacts of a subject.
CallsFor(g, subj) == SelectSeq(g, LAMBDA c : c.subj = subj)

\* C29: when a completed processalldata finds the raw file of a day missing,
\* it flags that file, and the flag of every other artifact of the subject
\* still says whether that artifact's own file is missing; when all the other
\* artifact files of the subject exist, the raw file is the only artifact
\* flagged, its generation is the only one called for the subject, and every
\* file that existed is left as it was, but for the .csv copy of the raw
\* file, which is written with it.
C29_StalenessDoesNotCascade ==
    [][CompletedRunStep =>
          \A subj \in DOMAIN bk'.summary : \A d \in DOMAIN bk'.summary[subj].days :
              bk'.summary[subj].days[d].raw[1] \notin DOMAIN disk =>
                  /\ bk'.summary[subj].days[d].raw[2]
                  /\ \A item \in PlanItems(bk'.summary[subj]) :
                         item[2] <=> item[1] \notin DOMAIN disk
                  /\ (PlanPaths(bk'.summary[subj]) \ {bk'.summary[subj].days[d].raw[1]}
                          \subseteq DOMAIN disk) =>
                         /\ {item \in PlanItems(bk'.summary[subj]) : item[2]}
                                = {bk'.summary[subj].days[d].raw}
                         /\ Len(CallsFor(gens', subj)) = 1
                         /\ CallsFor(gens', subj)[1].kind = "raw"
                         /\ CallsFor(gens', subj)[1].path = bk'.summary[subj].days[d].raw[1]
                         /\ \A path \in DOMAIN disk :
                                path \in DOMAIN disk' /\ disk'[path] = disk[path]
                         /\ \A path \in DOMAIN csvdisk \ {bk'.summary[subj].days[d].raw[1]} :
                                /\ path \in DOMAIN csvdisk'
                                /\ csvdisk'[path] = csvdisk[path]]_vars

\* The latest processalldata found the raw file of day 0 missing and the
\* generated ulfuncinst, ulfuncavrg and summary files in place, over a plan
\* of two days: it has made the one call and written the raw file back, and
\* its .csv copy over the one of an earlier run.
C29_Witness ==
    /\ bk.status = "ok"
    /\ "s1" \in DOMAIN bk.summary
    /\ nruns > 1
    /\ bk.summary["s1"].days[0].raw[1] \in DOMAIN csvdisk
    /\ csvdisk[bk.summary["s1"].days[0].raw[1]] = nruns
    /\ DOMAIN bk.summary["s1"].days = {0, 1}
    /\ bk.summary["s1"].days[0].raw[1] \notin DOMAIN bk.seen.disk
    /\ \A path \in PlanPaths(bk.summary["s1"]) \ {bk.summary["s1"].days[0].raw[1]} :
           path \in DOMAIN bk.seen.disk /\ bk.seen.disk[path] = "data"
    /\ Len(gens) = 1
    /\ gens[1].outcome = "written"
    /\ gens[1].path = bk.summary["s1"].days[0].raw[1]

====
